---- MODULE Spec2Model ----
(***************************************************************************)
(* Model of the DCA archive codec (rs-dca): compress_into of compress.rs   *)
(* and decompress_from of decompress.rs, as step machines over a byte      *)
(* sink / byte stream, with the content handler, the error handler and the *)
(* I/O of the sink as the environment.  Bytes are integers 0..255.         *)
(***************************************************************************)
EXTENDS Integers, Sequences, FiniteSets, TLC

\* ------------------------------------------------------------------ bounds
\* Longest list of paths handed to the content source.
MaxFiles == 2
\* Largest number of chunks an entry's reader yields before end of file.
MaxChunks == 1

\* --------------------------------------------------------------- constants
\* '\n', the delimiter of every line and the footer of every entry.
LF == 10
\* '/', the path separator.
SLASH == 47

\* A header that lacks its line feed.
HeaderM == <<68, 67, 65>>
\* FilePosition is an unsigned integer of this many bits (u64 in the code,
\* scaled down so that the largest value has three decimal digits).
FilePositionBits == 7
\* The first value a FilePosition cannot hold.
PosLimit == 2 ^ FilePositionBits

\* b"DCA\n"
Header == <<68, 67, 65, LF>>

\* ------------------------------------------------------------ input sets
\* Paths offered to compress_into: "a", "b/c", ".", "..", "a\nb", and a
\* name that is not UTF-8.
Paths ==
    { <<97>>, <<98, SLASH, 99>>, <<46>>, <<46, 46>>, <<97, LF, 98>>, <<255>> }

\* What one fill_buf of an entry's reader can hand out: a line feed, or a
\* block of ten bytes with a line feed in it (so that sizes of two digits
\* and payloads with line feeds occur).
Chunks ==
    { <<LF>>, <<121, 121, 121, LF, 121, 121, 121, 121, 121, 122>> }

\* Lengths a content source may declare for an entry.
Lens == {0, 1, 10}

\* ------------------------------------------------------------- sequences

Prefix(s, n) == SubSeq(s, 1, n)
Drop(s, n) == SubSeq(s, n + 1, Len(s))

\* --------------------------------------------------------------- errors
\* ArchiveError, one record shape for the four variants.
NoErr == [kind |-> "none", path |-> <<>>, io |-> "none", ch |-> 0, pos |-> 0, section |-> "none"]
ArchiveIo(io) == [NoErr EXCEPT !.kind = "ArchiveIo", !.io = io]
BadFileIo(path, io) == [NoErr EXCEPT !.kind = "BadFileIo", !.path = path, !.io = io]
InvalidChar(path, ch, pos) ==
    [NoErr EXCEPT !.kind = "InvalidDcaFilename", !.path = path, !.io = "InvalidChar",
                  !.ch = ch, !.pos = pos]
NotUnicode(path) ==
    [NoErr EXCEPT !.kind = "InvalidDcaFilename", !.path = path, !.io = "NotUnicode"]
CorruptedArchive(position, section) ==
    [NoErr EXCEPT !.kind = "CorruptedArchive", !.pos = position, !.section = section]

\* ------------------------------------------------- Path::file_name
\* The pieces of a path between separators.
RECURSIVE SplitOn(_, _, _)
SplitOn(bytes, sep, cur) ==
    IF bytes = <<>> THEN <<cur>>
    ELSE IF Head(bytes) = sep THEN <<cur>> \o SplitOn(Tail(bytes), sep, <<>>)
    ELSE SplitOn(Tail(bytes), sep, Append(cur, Head(bytes)))

\* Components that can be a final Normal component: repeated and trailing
\* separators and "." are normalised away.
NormalComponents(path) ==
    SelectSeq(SplitOn(path, SLASH, <<>>), LAMBDA c : c # <<>> /\ c # <<46>>)

\* Path::file_name: the final component if it is a normal one; None when
\* the path ends in "..", or is "/", "." or empty.
FileName(path) ==
    LET comps == NormalComponents(path) IN
    IF comps = <<>> \/ comps[Len(comps)] = <<46, 46>>
    THEN [some |-> FALSE, val |-> <<>>]
    ELSE [some |-> TRUE, val |-> comps[Len(comps)]]

\* --------------------------------------------------- OsStr::to_str
\* UTF-8 decoding into code points, for the one- and two-byte forms (the
\* input sets hold no longer form); ok = FALSE when the bytes are not UTF-8.
RECURSIVE Utf8Chars(_)
Utf8Chars(bytes) ==
    IF bytes = <<>> THEN [ok |-> TRUE, chars |-> <<>>]
    ELSE IF Head(bytes) < 128
    THEN LET rest == Utf8Chars(Tail(bytes)) IN
         [ok |-> rest.ok, chars |-> <<Head(bytes)>> \o rest.chars]
    ELSE IF /\ Head(bytes) >= 194 /\ Head(bytes) <= 223 /\ Len(bytes) >= 2
            /\ bytes[2] >= 128 /\ bytes[2] <= 191
    THEN LET rest == Utf8Chars(Tail(Tail(bytes))) IN
         [ok |-> rest.ok,
          chars |-> <<(Head(bytes) - 192) * 64 + (bytes[2] - 128)>> \o rest.chars]
    ELSE [ok |-> FALSE, chars |-> <<>>]

\* A search that reports the last forbidden character instead of the first.
RECURSIVE FindForbiddenLastM(_, _)
FindForbiddenLastM(chars, i) ==
    IF chars = <<>> THEN -1
    ELSE LET later == FindForbiddenLastM(Tail(chars), i + 1) IN
         IF later >= 0 THEN later
         ELSE IF Head(chars) \in {LF, SLASH} THEN i ELSE -1
\* Zero-based index of the first forbidden character, or -1.
RECURSIVE FindForbidden(_, _)
FindForbidden(chars, i) ==
    IF chars = <<>> THEN -1
    ELSE IF Head(chars) \in {LF, SLASH} THEN i
    ELSE FindForbidden(Tail(chars), i + 1)

\* An into_dca_filename that counts the characters from one.
into_dca_filenameOneM(name, path) ==
    LET dec == Utf8Chars(name) IN
    IF ~dec.ok THEN [ok |-> FALSE, name |-> <<>>, err |-> NotUnicode(path)]
    ELSE LET pos == FindForbidden(dec.chars, 0) IN
         IF pos >= 0
         THEN [ok |-> FALSE, name |-> <<>>,
               err |-> InvalidChar(path, dec.chars[pos + 1], pos + 1)]
         ELSE [ok |-> TRUE, name |-> name, err |-> NoErr]
\* into_dca_filename: Ok(name), NotUnicode or InvalidChar(ch, pos); the
\* error is reported for `path`, as compress_into wraps it.
into_dca_filename(name, path) ==
    LET dec == Utf8Chars(name) IN
    IF ~dec.ok THEN [ok |-> FALSE, name |-> <<>>, err |-> NotUnicode(path)]
    ELSE LET pos == FindForbidden(dec.chars, 0) IN
         IF pos >= 0
         THEN [ok |-> FALSE, name |-> <<>>,
               err |-> InvalidChar(path, dec.chars[pos + 1], pos)]
         ELSE [ok |-> TRUE, name |-> name, err |-> NoErr]

\* ------------------------------------------------ Display for u64
RECURSIVE Decimal(_)
Decimal(n) ==
    IF n < 10 THEN <<48 + n>> ELSE Append(Decimal(n \div 10), 48 + (n % 10))

\* A name and size line that lacks its final line feed.
NameSizeLineM(name, len) == name \o <<LF>> \o Decimal(len)
\* format_args!("{}\n{}\n", name, len)
NameSizeLine(name, len) == name \o <<LF>> \o Decimal(len) \o <<LF>>

\* ===================================================== compress_into
VARIABLES
    files,      \* DefaultFileHandler.files: the paths not yet taken
    writer,     \* the bytes the sink has accepted
    cpc,        \* where compress_into stands
    cfile,      \* the FileDescriptor in the callback: path, name, len
    buf,        \* the entry reader's buffered, unconsumed bytes
    chunks,     \* how many chunks the entry's reader has yielded
    cerr,       \* the error add_file returned, awaiting the match at 185
    cresult,    \* what compress_into returned
    \* history of the run, read by the properties only
    source,     \* the list of paths the source was built from
    payload,    \* payload bytes of the current entry accepted by the sink
    written,    \* entries whose add_file returned Ok(Some(())), in order
    offers,     \* calls of on_err since add_file was last called
    cev         \* what the last step did

cvars == <<files, writer, cpc, cfile, buf, chunks, cerr, cresult,
           source, payload, written, offers, cev>>

\* The state of decompress_from, declared here so that every action can
\* leave the other operation's state alone.
VARIABLES
    stream,     \* the bytes of the archive the reader is over
    rpos,       \* the reader's cursor: the offset of the next byte it reads
    position,   \* the tracked position of decompress_from
    dpc,        \* where decompress_from stands
    fname,      \* the name read for the current entry
    fsize,      \* the size read for the current entry
    derr,       \* the error on_file returned, awaiting the match at 286
    dresult,    \* what decompress_from returned
    handler,    \* the FileHandler in use: "default" or "callback"
    fs,         \* the work directory of the default handler: name -> content
    \* history of the run, read by the properties only
    delivered,  \* how many times on_file was called
    view,       \* the last call of on_file: what it was given and did
    doffers,    \* how many times on_err was called
    dev         \* what the last step did

dvars == <<stream, rpos, position, dpc, fname, fsize, derr, dresult, handler, fs,
           delivered, view, doffers, dev>>

\* A call of into_dca_filename by itself: the OsStr it is given and what it
\* returned.
VARIABLES
    os_name,     \* the name passed
    fresult      \* [called, ok, name, err]
fvars == <<os_name, fresult>>
NoResult == [called |-> FALSE, ok |-> FALSE, name |-> <<>>, err |-> NoErr]
FilenameInit == os_name = <<>> /\ fresult = NoResult

\* The callers of the two operations: compress_files around compress_into.
VARIABLES
    arch_exists, \* whether there is a file at archive_name
    cf_pc,       \* where compress_files stands: "idle", "running", "done"
    cf_result,   \* what compress_files returned
    cf_ev,       \* what its last step did
    arch_bytes   \* the bytes the file at archive_name holds once it returned
cfvars == <<arch_exists, cf_pc, cf_result, cf_ev, arch_bytes>>

\* A default error handler called by itself.
VARIABLES
    pol,         \* which one: "compress" or "decompress"
    answers      \* the errors it was given and what it answered, in order
pvars == <<pol, answers>>

\* archive_entries around decompress_from.
VARIABLES
    names,       \* the Vec the listing handler pushes to
    sorting,     \* the ListingSort asked for
    e_pc,        \* where archive_entries stands: "idle", "running", "done"
    eresult      \* what it returned: [status, err, list]
evars == <<names, sorting, e_pc, eresult>>

\* decompress_files of the command line, main.rs.
VARIABLES
    m_stream,    \* the bytes of the archive file
    m_pos,       \* the cursor of its reader
    m_dir,       \* the output directory: file name -> content
    m_pc,        \* "idle", "loop", "done"
    m_result,    \* what it returned
    m_ev         \* what its last step did
mvars == <<m_stream, m_pos, m_dir, m_pc, m_result, m_ev>>

\* The inside of DefaultFileHandler::on_file of decompress.rs.
VARIABLES
    open_files,  \* the output files it holds open, by name
    hpc          \* "idle", or "created" between File::create and write_file
ovars == <<open_files, hpc>>

\* The archive a reader was opened over a part of.
VARIABLES
    whole        \* its entries: [name, len, content]
xvars == <<whole>>

\* The copy loop of compress_into seen from outside.
VARIABLES
    idle_turns   \* the parity of its turns in a row that wrote no byte
lvars == <<idle_turns>>

\* All that is outside the two operations and into_dca_filename.
wvars == <<cfvars, pvars, evars, mvars, ovars, xvars, lvars>>
\* All that is outside compress_files.
cfrest == <<cvars, dvars, fvars, pvars, evars, mvars, ovars, xvars, lvars>>

NoFile == [path |-> <<>>, name |-> <<>>, len |-> 0]
Running == [status |-> "running", err |-> NoErr]
Ok == [status |-> "Ok", err |-> NoErr]
Err(e) == [status |-> "Err", err |-> e]

\* Lists of at most n elements of S.
RECURSIVE SeqsUpTo(_, _)
SeqsUpTo(S, n) ==
    IF n = 0 THEN {<<>>}
    ELSE LET shorter == SeqsUpTo(S, n - 1) IN
         shorter \cup {Append(s, x) : s \in {t \in shorter : Len(t) = n - 1}, x \in S}

CompressInit ==
    /\ files \in SeqsUpTo(Paths, MaxFiles)
    /\ source = files
    /\ writer = <<>>
    /\ cpc = "header"
    /\ cfile = NoFile
    /\ buf = <<>>
    /\ chunks = 0
    /\ cerr = NoErr
    /\ cresult = Running
    /\ payload = <<>>
    /\ written = <<>>
    /\ offers = 0
    /\ cev = "init"

\* What a failed write_all / write_fmt may leave in the sink: a strict
\* prefix of the bytes it was given (here none of them, or all but the last).
Partial(bytes) == {Prefix(bytes, n) : n \in {0, Len(bytes) - 1}}

\* A match of compress.rs:185 that returns no error by itself.
CompressFatalM(e) == FALSE
\* A match of compress.rs:185 that returns every error by itself.
CompressFatalAllM(e) == TRUE
\* The match at compress.rs:189: an ArchiveIo error is returned at once,
\* every other error goes to the error handler.
CompressFatal(e) == e.kind = "ArchiveIo"

\* compress.rs:151  writer.write_all(b"DCA\n").map_err(E::ArchiveIo)?
CWriteHeader ==
    /\ UNCHANGED <<dvars, fvars, wvars>>
    /\ cpc = "header"
    /\ \/ /\ writer' = writer \o Header
          /\ cpc' = "add_file"
          /\ cev' = "header"
          /\ UNCHANGED cresult
       \/ /\ writer' \in {writer \o p : p \in Partial(Header)}
          /\ cpc' = "done"
          /\ cresult' = Err(ArchiveIo("Other"))
          /\ cev' = "write_failed"
    /\ UNCHANGED <<files, cfile, buf, chunks, cerr, source, payload, written, offers>>

\* Errors a content source may return from add_file before it calls the
\* callback: the default source's open / seek failure, and, for a custom
\* FileHandler, the other variants of ArchiveError.
SourceErrors(path) ==
    { BadFileIo(path, "NotFound"), ArchiveIo("Other"), CorruptedArchive(0, "Payload") }

\* A callback that takes every name as it comes.
ValidateM(path) ==
    LET last == FileName(path) IN
    IF ~last.some THEN [ok |-> TRUE, name |-> path, err |-> NoErr]
    ELSE [ok |-> TRUE, name |-> last.val, err |-> NoErr]
\* The name validation of the callback, compress.rs:161-166.
Validate(path) ==
    LET last == FileName(path) IN
    IF ~last.some
    THEN [ok |-> FALSE, name |-> <<>>, err |-> BadFileIo(path, "NotFound")]
    ELSE into_dca_filename(last.val, path)

\* One call of handle_file.add_file, compress.rs:153 with 110-126, up to
\* the first write of the callback: no more files; or the source fails; or
\* the callback is entered with the path and the measured length and
\* validates the name.
CAddFile ==
    /\ UNCHANGED <<dvars, fvars, wvars>>
    /\ cpc = "add_file"
    /\ IF files = <<>>
       THEN /\ cpc' = "done"
            /\ cresult' = Ok
            /\ cev' = "no_more_files"
            /\ UNCHANGED <<files, cfile, cerr>>
       ELSE LET path == Head(files) IN
            /\ files' = Tail(files)
            /\ UNCHANGED cresult
            /\ \/ \E e \in SourceErrors(path) :
                     /\ cerr' = e
                     /\ cpc' = "dispatch"
                     /\ cev' = IF e.kind = "ArchiveIo" THEN "source_archive_io"
                               ELSE "source_failed"
                     /\ UNCHANGED cfile
               \/ \E len \in Lens :
                     LET v == Validate(path) IN
                     IF v.ok
                     THEN /\ cfile' = [path |-> path, name |-> v.name, len |-> len]
                          /\ cpc' = "line"
                          /\ cev' = "callback"
                          /\ UNCHANGED cerr
                     ELSE /\ cerr' = v.err
                          /\ cpc' = "dispatch"
                          /\ cev' = "name_rejected"
                          /\ UNCHANGED cfile
    /\ offers' = 0
    /\ UNCHANGED <<writer, buf, chunks, source, payload, written>>

\* compress.rs:168-170  writer.write_fmt("{}\n{}\n", name, len)
CWriteLine ==
    /\ UNCHANGED <<dvars, fvars, wvars>>
    /\ cpc = "line"
    /\ LET line == NameSizeLine(cfile.name, cfile.len) IN
       \/ /\ writer' = writer \o line
          /\ cpc' = "copy"
          /\ cev' = "line"
          /\ UNCHANGED cerr
       \/ /\ writer' \in {writer \o p : p \in Partial(line)}
          /\ cerr' = ArchiveIo("Other")
          /\ cpc' = "dispatch"
          /\ cev' = "write_failed"
    /\ payload' = <<>>
    /\ buf' = <<>>
    /\ chunks' = 0
    /\ UNCHANGED <<files, cfile, cresult, source, written, offers>>

\* How many bytes of a buffer one writer.write may accept: none, half of
\* them (a partial write), or all.
Accepts(b) == {0, Len(b) \div 2, Len(b)}

\* One turn of the copy loop, compress.rs:172-181: fill_buf (the buffered
\* bytes, or the next chunk, end of file or a read error of the source),
\* then one write of the buffer and consume of what was accepted.  write
\* is called once a turn, so that a sink accepting nothing (Ok(0)) leaves
\* the buffer as it was for the next turn.
CCopy ==
    /\ UNCHANGED <<dvars, fvars, cfvars, pvars, evars, mvars, ovars, xvars>>
    /\ cpc = "copy"
    /\ \/ \* fill_buf fails
          /\ buf = <<>>
          /\ cerr' = BadFileIo(cfile.path, "Other")
          /\ cpc' = "dispatch"
          /\ cev' = "read_failed"
          /\ UNCHANGED <<writer, buf, chunks, payload>>
       \/ \* end of file: break
          /\ buf = <<>>
          /\ cpc' = "trailer"
          /\ cev' = "eof"
          /\ UNCHANGED <<writer, buf, chunks, payload, cerr>>
       \/ \* a buffer, and the write of it
          \E b \in (IF buf # <<>> THEN {buf}
                    ELSE IF chunks < MaxChunks THEN Chunks ELSE {}) :
             /\ chunks' = IF buf # <<>> THEN chunks ELSE chunks + 1
             /\ \/ \E n \in Accepts(b) :
                      /\ writer' = writer \o Prefix(b, n)
                      /\ payload' = payload \o Prefix(b, n)
                      /\ buf' = Drop(b, n)
                      /\ cpc' = "copy"
                      /\ cev' = "chunk"
                      /\ UNCHANGED cerr
                \/ /\ writer' \in {writer \o p : p \in Partial(b)}
                   /\ cerr' = ArchiveIo("Other")
                   /\ cpc' = "dispatch"
                   /\ cev' = "write_failed"
                   /\ buf' = b
                   /\ UNCHANGED payload
    /\ UNCHANGED <<files, cfile, cresult, source, written, offers>>
    \* a turn that stays in the loop and wrote no byte is an idle one
    /\ idle_turns' = IF cpc' = "copy" /\ payload' = payload THEN 1 - idle_turns ELSE 0

\* compress.rs:182-183  writer.write_all(b"\n"); Ok(()) and, back in
\* add_file, Ok(Some(())).
CWriteTrailer ==
    /\ UNCHANGED <<dvars, fvars, wvars>>
    /\ cpc = "trailer"
    /\ \/ /\ writer' = Append(writer, LF)
          /\ written' = Append(written, [path |-> cfile.path, name |-> cfile.name,
                                         len |-> cfile.len, content |-> payload])
          /\ cpc' = "add_file"
          /\ cev' = "trailer"
          /\ UNCHANGED cerr
       \/ /\ cerr' = ArchiveIo("Other")
          /\ cpc' = "dispatch"
          /\ cev' = "write_failed"
          /\ UNCHANGED <<writer, written>>
    /\ UNCHANGED <<files, cfile, buf, chunks, cresult, source, payload, offers>>

\* A `?` that drops the error on_err returned.
PropagateM(answer) == Ok
\* The `?` applied to what on_err returned (compress.rs:190,
\* decompress.rs:295): an Err ends the call with that error.
Propagate(answer) == Err(answer)

\* An error handler may answer with another error than the one offered.
Translated(e) == BadFileIo(e.path, "Translated")

\* compress.rs:187-191: the error add_file returned is returned at once if
\* it is an ArchiveIo, and otherwise offered to handle_err.on_err, which
\* resumes (Ok) or answers with an error that is returned.
CDispatch ==
    /\ UNCHANGED <<dvars, fvars, wvars>>
    /\ cpc = "dispatch"
    /\ IF CompressFatal(cerr)
       THEN /\ cresult' = Err(cerr)
            /\ cpc' = "done"
            /\ cev' = IF cev = "write_failed" THEN "write_fatal" ELSE "fatal"
            /\ cerr' = NoErr
            /\ UNCHANGED offers
       ELSE /\ offers' = offers + 1
            /\ \/ /\ cpc' = "add_file"
                  /\ cev' = "resumed"
                  /\ cerr' = NoErr
                  /\ UNCHANGED cresult
               \/ \* on_err returns Err(e); cerr keeps what it returned
                  \E e \in {cerr, Translated(cerr)} :
                     /\ cerr' = e
                     /\ cresult' = Propagate(e)
                     /\ cpc' = "done"
                     /\ cev' = "aborted"
    /\ UNCHANGED <<files, writer, cfile, buf, chunks, source, payload, written>>

CompressNext ==
    \/ CWriteHeader
    \/ CAddFile
    \/ CWriteLine
    \/ CCopy
    \/ CWriteTrailer
    \/ CDispatch

\* =================================================== decompress_from
NoView == [name |-> <<>>, len |-> 0, content |-> <<>>, read |-> 0, result |-> "none",
           io |-> "none", removable |-> FALSE]

DecompressInit ==
    /\ stream = <<>>
    /\ rpos = 0
    /\ position = 0
    /\ dpc = "idle"
    /\ fname = <<>>
    /\ fsize = 0
    /\ derr = NoErr
    /\ dresult = Running
    /\ handler = "none"
    /\ fs = <<>>
    /\ delivered = 0
    /\ view = NoView
    /\ doffers = 0
    /\ dev = "init"

Min(a, b) == IF a < b THEN a ELSE b

\* The calls of on_file and of on_err are counted up to MaxCounted (a run
\* of decompress_from that goes round for ever makes more).
MaxCounted == 3
Counted(n) == IF n < MaxCounted THEN n + 1 ELSE n

\* The bytes of the stream from offset `at` on (none beyond its end).
From(bytes, at) == IF at >= Len(bytes) THEN <<>> ELSE Drop(bytes, at)

\* A read_matches that takes the end of the stream for a match.
read_matchesEofM(bytes, at, reference, pos) ==
    LET rest == From(bytes, at)
        N == Len(reference) IN
    IF Len(rest) < N
    THEN [io |-> "none", res |-> TRUE, position |-> pos + N, rpos |-> Len(bytes)]
    ELSE [io |-> "none", res |-> Prefix(rest, N) = reference,
          position |-> IF Prefix(rest, N) = reference THEN pos + N ELSE pos,
          rpos |-> at + N]
\* A read_matches that advances the position whatever it read.
read_matchesAdvM(bytes, at, reference, pos) ==
    LET rest == From(bytes, at)
        N == Len(reference) IN
    IF Len(rest) < N
    THEN [io |-> "UnexpectedEof", res |-> FALSE, position |-> pos, rpos |-> Len(bytes)]
    ELSE [io |-> "none", res |-> Prefix(rest, N) = reference,
          position |-> pos + N, rpos |-> at + N]
\* A read_matches that takes a short read for a mismatch.
read_matchesShortM(bytes, at, reference, pos) ==
    LET rest == From(bytes, at)
        N == Len(reference) IN
    [io |-> "none", res |-> Len(rest) >= N /\ Prefix(rest, N) = reference,
     position |-> IF Len(rest) >= N /\ Prefix(rest, N) = reference THEN pos + N ELSE pos,
     rpos |-> Min(at + N, Len(bytes))]
\* read_matches, decompress.rs:64-77: read_exact of N bytes, which fails
\* with UnexpectedEof when fewer are left; the position advances by N only
\* on a match.
read_matches(bytes, at, reference, pos) ==
    LET rest == From(bytes, at)
        N == Len(reference) IN
    IF Len(rest) < N
    THEN [io |-> "UnexpectedEof", res |-> FALSE, position |-> pos, rpos |-> Len(bytes)]
    ELSE [io |-> "none", res |-> Prefix(rest, N) = reference,
          position |-> IF Prefix(rest, N) = reference THEN pos + N ELSE pos,
          rpos |-> at + N]

\* BufRead::read_line: the bytes up to and including the first line feed,
\* or all that is left.
RECURSIVE UpToLF(_)
UpToLF(bytes) ==
    IF bytes = <<>> THEN <<>>
    ELSE IF Head(bytes) = LF THEN <<LF>>
    ELSE <<Head(bytes)>> \o UpToLF(Tail(bytes))

\* A byte that continues a multi-byte UTF-8 character.
Continuation(b) == b >= 128 /\ b <= 191

\* A read_line that keeps the delimiter and does not check the text.
read_lineM(bytes, at) ==
    LET line_buf == UpToLF(From(bytes, at)) IN
    IF line_buf = <<>> THEN [kind |-> "none", text |-> <<>>, n |-> 0]
    ELSE [kind |-> "line", text |-> line_buf, n |-> Len(line_buf)]
\* read_line, decompress.rs:83-99, before the processor is applied.
\* kind "none": nothing was read; "io": read_line failed (the bytes are not
\* UTF-8); "panic": line_buf.len() - 1 is not a character boundary; "line":
\* text is &line_buf[..line_buf.len() - 1].
read_line(bytes, at) ==
    LET line_buf == UpToLF(From(bytes, at)) IN
    IF ~Utf8Chars(line_buf).ok THEN [kind |-> "io", text |-> <<>>, n |-> 0]
    ELSE IF line_buf = <<>> THEN [kind |-> "none", text |-> <<>>, n |-> 0]
    ELSE IF Continuation(line_buf[Len(line_buf)])
    THEN [kind |-> "panic", text |-> <<>>, n |-> 0]
    ELSE [kind |-> "line", text |-> Prefix(line_buf, Len(line_buf) - 1),
          n |-> Len(line_buf)]

\* The value of a string of decimal digits.
RECURSIVE DigitsValue(_, _)
DigitsValue(digits, acc) ==
    IF digits = <<>> THEN acc
    ELSE DigitsValue(Tail(digits), acc * 10 + (Head(digits) - 48))

\* Longest string of digits the model evaluates (sizes stay far below).
MaxDigits == 4

\* str::parse::<FilePosition>: an optional '+', then one or more decimal
\* digits whose value fits the type.
ParseSize(text) ==
    LET digits == IF text # <<>> /\ Head(text) = 43 THEN Tail(text) ELSE text IN
    IF /\ digits # <<>>
       /\ Len(digits) <= MaxDigits
       /\ \A i \in 1..Len(digits) : digits[i] >= 48 /\ digits[i] <= 57
       /\ DigitsValue(digits, 0) < PosLimit
    THEN [ok |-> TRUE, val |-> DigitsValue(digits, 0)]
    ELSE [ok |-> FALSE, val |-> 0]

\* A reader that is not bounded by the size of the entry.
TakeM(bytes, at, size) == From(bytes, at)
\* What reader.take(fsize) lets the handler read: at most fsize bytes, and
\* no more than the stream holds.
Take(bytes, at, size) == Prefix(From(bytes, at), Min(size, Len(From(bytes, at))))

\* The caller opens a reader over the bytes compress_into produced and
\* calls decompress_from with one of the two handlers.
DOpen ==
    /\ UNCHANGED <<cvars, fvars, wvars>>
    /\ dpc = "idle"
    /\ cpc = "done"
    /\ cresult = Ok
    /\ stream' = writer
    /\ handler' \in {"default", "callback"}
    /\ dpc' = "header"
    /\ dev' = "open"
    /\ UNCHANGED <<rpos, position, fname, fsize, derr, dresult, fs, delivered, view, doffers>>

\* decompress.rs:257-265: position = stream_position(), then the header.
DHeader ==
    /\ UNCHANGED <<cvars, fvars, wvars>>
    /\ dpc = "header"
    /\ LET m == read_matches(stream, rpos, Header, rpos) IN
       /\ rpos' = m.rpos
       /\ position' = m.position
       /\ IF m.io # "none"
          THEN /\ dresult' = Err(ArchiveIo(m.io))
               /\ dpc' = "done"
               /\ dev' = "io_error"
          ELSE IF ~m.res
          THEN /\ dresult' = Err(CorruptedArchive(m.position, "Header"))
               /\ dpc' = "done"
               /\ dev' = "corrupted"
          ELSE /\ dpc' = "name"
               /\ dev' = "header"
               /\ UNCHANGED dresult
    /\ UNCHANGED <<stream, fname, fsize, derr, handler, fs, delivered, view, doffers>>

\* decompress.rs:269-274: the name line, or the end of the archive.
DReadName ==
    /\ UNCHANGED <<cvars, fvars, wvars>>
    /\ dpc = "name"
    /\ LET l == read_line(stream, rpos) IN
       /\ rpos' = rpos + l.n
       /\ position' = position + l.n
       /\ CASE l.kind = "none" ->
                 /\ dresult' = Ok
                 /\ dpc' = "done"
                 /\ dev' = "end"
                 /\ UNCHANGED fname
            [] l.kind = "io" ->
                 /\ dresult' = Err(ArchiveIo("InvalidData"))
                 /\ dpc' = "done"
                 /\ dev' = "io_error"
                 /\ UNCHANGED fname
            [] l.kind = "panic" ->
                 /\ dresult' = [status |-> "panic", err |-> NoErr]
                 /\ dpc' = "done"
                 /\ dev' = "panic"
                 /\ UNCHANGED fname
            [] l.kind = "line" ->
                 /\ fname' = l.text
                 /\ dpc' = "size"
                 /\ dev' = "name"
                 /\ UNCHANGED dresult
    /\ UNCHANGED <<stream, fsize, derr, handler, fs, delivered, view, doffers>>

\* read_file_size, decompress.rs:102-121, called at 276.
DReadSize ==
    /\ UNCHANGED <<cvars, fvars, wvars>>
    /\ dpc = "size"
    /\ LET l == read_line(stream, rpos)
           old_pos == position
           parsed == ParseSize(l.text) IN
       /\ rpos' = rpos + l.n
       /\ CASE l.kind = "none" ->
                 /\ dresult' = Err(CorruptedArchive(position, "FileSize"))
                 /\ dpc' = "done"
                 /\ dev' = "corrupted"
                 /\ UNCHANGED <<position, fsize>>
            [] l.kind = "io" ->
                 /\ dresult' = Err(ArchiveIo("InvalidData"))
                 /\ dpc' = "done"
                 /\ dev' = "io_error"
                 /\ UNCHANGED <<position, fsize>>
            [] l.kind = "panic" ->
                 /\ dresult' = [status |-> "panic", err |-> NoErr]
                 /\ dpc' = "done"
                 /\ dev' = "panic"
                 /\ UNCHANGED <<position, fsize>>
            [] l.kind = "line" /\ ~parsed.ok ->
                 /\ dresult' = Err(CorruptedArchive(old_pos, "FileSize"))
                 /\ dpc' = "done"
                 /\ dev' = "corrupted"
                 /\ UNCHANGED <<position, fsize>>
            [] l.kind = "line" /\ parsed.ok ->
                 /\ fsize' = parsed.val
                 /\ position' = position + l.n
                 /\ \/ /\ dpc' = "file"
                       /\ dev' = "size"
                       /\ UNCHANGED dresult
                    \/ \* position + fsize overflows: a build with overflow
                       \* checks panics at line 278, any other wraps around
                       /\ position' + fsize' >= PosLimit
                       /\ dresult' = [status |-> "panic", err |-> NoErr]
                       /\ dpc' = "done"
                       /\ dev' = "panic"
    /\ UNCHANGED <<stream, fname, derr, handler, fs, delivered, view, doffers>>

\* A footer position that forgets the size of the payload.
footer_positionM == position
\* footer_position, decompress.rs:278 (position is not assigned between
\* there and line 311); the sum wraps around when it does not fit.
footer_position == (position + fsize) % PosLimit

\* How many bytes of its reader a handler may consume: none, half, all.
ReadCounts(n) == {0, n \div 2, n}

\* The errors a custom FileHandler may return from on_file.
HandlerErrors(name) ==
    { BadFileIo(name, "Other"), InvalidChar(name, SLASH, 0), ArchiveIo("Other"),
      ArchiveIo("UnexpectedEof"), CorruptedArchive(0, "Payload") }

Put(f, k, v) == [x \in (DOMAIN f) \cup {k} |-> IF x = k THEN v ELSE f[x]]
Remove(f, k) == [x \in (DOMAIN f) \ {k} |-> f[x]]

\* decompress.rs:280-284 with a custom handler (CallbackFileHandler or any
\* other FileHandler): on_file is given the name, the size and a reader
\* bounded by take(fsize); it reads some of it and returns Ok or an error.
DOnFileCallback ==
    /\ UNCHANGED <<cvars, fvars, wvars>>
    /\ dpc = "file"
    /\ handler = "callback"
    /\ LET avail == Take(stream, rpos, fsize) IN
       \E k \in ReadCounts(Len(avail)) :
          /\ rpos' = rpos + k
          /\ \/ /\ derr' = NoErr
                /\ dpc' = "footer"
                /\ dev' = "on_file_ok"
             \/ \E e \in HandlerErrors(fname) :
                   /\ derr' = e
                   /\ dpc' = "dispatch"
                   /\ dev' = "on_file_err"
          /\ view' = [name |-> fname, len |-> fsize, content |-> avail, read |-> k,
                      result |-> derr'.kind, io |-> derr'.io, removable |-> FALSE]
    /\ delivered' = Counted(delivered)
    /\ UNCHANGED <<stream, position, fname, fsize, dresult, handler, fs, doffers>>

\* A default handler that keeps the file of a failed copy.
RemovesOnErrorM == FALSE
\* Whether remove_file is attempted after write_file failed,
\* decompress.rs:210-215.
RemovesOnError == TRUE

\* A write_file that keeps the file open when it returns.
DropWriterM(handles) == handles
\* The handles left when write_file returns, decompress.rs:203-208: the
\* file was moved into the BufWriter, which is dropped with it at the end
\* of the closure.
DropWriter(handles) == SubSeq(handles, 1, Len(handles) - 1)

\* decompress.rs:280-284 with DefaultFileHandler::on_file, up to
\* File::create (193-201), which creates the file, or truncates the one of
\* that name, and opens it, or fails with a BadFileIo that on_file returns.
DCreateDefault ==
    /\ UNCHANGED <<cvars, fvars, cfvars, pvars, evars, mvars, xvars, lvars>>
    /\ dpc = "file"
    /\ handler = "default"
    /\ hpc = "idle"
    /\ LET avail == Take(stream, rpos, fsize) IN
       \/ /\ derr' = BadFileIo(fname, "Create")
          /\ dpc' = "dispatch"
          /\ dev' = "on_file_err"
          /\ view' = [name |-> fname, len |-> fsize, content |-> avail, read |-> 0,
                      result |-> "BadFileIo", io |-> "Create", removable |-> FALSE]
          /\ delivered' = Counted(delivered)
          /\ UNCHANGED <<fs, open_files, hpc>>
       \/ /\ fs' = Put(fs, fname, <<>>)
          /\ open_files' = Append(open_files, fname)
          /\ hpc' = "created"
          /\ view' = [name |-> fname, len |-> fsize, content |-> avail, read |-> 0,
                      result |-> "open", io |-> "none", removable |-> FALSE]
          /\ UNCHANGED <<derr, dpc, dev, delivered>>
    /\ UNCHANGED <<stream, rpos, position, fname, fsize, dresult, handler, doffers>>

\* The rest of DefaultFileHandler::on_file (203-217) with extract_file
\* (129-153): the copy of fsize bytes, which ends with Ok, with BadFileIo
\* when a write to the file fails, or with ArchiveIo when the stream fails
\* or ends early; the file is closed when write_file returns; on an error
\* of the copy remove_file is called, which succeeds or not (removable).
DOnFileDefault ==
    /\ UNCHANGED <<cvars, fvars, cfvars, pvars, evars, mvars, xvars, lvars>>
    /\ dpc = "file"
    /\ handler = "default"
    /\ hpc = "created"
    /\ hpc' = "idle"
    /\ open_files' = DropWriter(open_files)
    /\ LET avail == Take(stream, rpos, fsize) IN
       \/ \* the whole payload is copied; the BufWriter is flushed when it is
          \* dropped, and a failure of that flush is not reported
          /\ Len(avail) = fsize
          /\ derr' = NoErr
          /\ dpc' = "footer"
          /\ dev' = "on_file_ok"
          /\ rpos' = rpos + fsize
          /\ \E stored \in {avail, Prefix(avail, Len(avail) \div 2)} :
                fs' = Put(fs, fname, stored)
          /\ view' = [name |-> fname, len |-> fsize, content |-> avail, read |-> fsize,
                      result |-> "none", io |-> "none", removable |-> FALSE]
       \/ \* the copy fails after k bytes
          \E k \in ReadCounts(Len(avail)) :
          \E e \in {BadFileIo(fname, "Write"), ArchiveIo("Other"), ArchiveIo("UnexpectedEof")} :
             /\ e.io = "Write" => k < Len(avail)
             /\ e.io = "UnexpectedEof" <=> (k = Len(avail) /\ Len(avail) < fsize)
             /\ derr' = e
             /\ dpc' = "dispatch"
             /\ dev' = "on_file_err"
             /\ rpos' = rpos + k
             /\ \E removable \in BOOLEAN :
                   /\ fs' = IF RemovesOnError /\ removable
                            THEN Remove(fs, fname)
                            ELSE Put(fs, fname, Prefix(avail, k))
                   /\ view' = [name |-> fname, len |-> fsize, content |-> avail,
                               read |-> k, result |-> e.kind, io |-> e.io,
                               removable |-> removable]
    /\ delivered' = Counted(delivered)
    /\ UNCHANGED <<stream, position, fname, fsize, dresult, handler, doffers>>

\* A match that returns every error of the handler without asking on_err.
DecompressRouteFatalM(e) ==
    IF e.kind = "ArchiveIo" /\ e.io = "UnexpectedEof" THEN "payload" ELSE "fatal"
\* A match that returns the UnexpectedEof of the handler as it is.
DecompressRouteEofM(e) ==
    IF e.kind = "BadFileIo" THEN "on_err" ELSE "fatal"
\* The match on the error of on_file, decompress.rs:286-304.
DecompressRoute(e) ==
    IF e.kind = "ArchiveIo" /\ e.io = "UnexpectedEof" THEN "payload"
    ELSE IF e.kind = "BadFileIo" THEN "on_err"
    ELSE "fatal"

\* decompress.rs:286-304: an UnexpectedEof of the handler becomes a
\* CorruptedArchive at the end of the stream; a BadFileIo is offered to
\* handle_err.on_err; every other error is returned.
DDispatch ==
    /\ UNCHANGED <<cvars, fvars, wvars>>
    /\ dpc = "dispatch"
    /\ LET route == DecompressRoute(derr) IN
       CASE route = "payload" ->
               \* seek(SeekFrom::End(0)).unwrap_or(FilePosition::MAX)
               /\ \/ /\ rpos' = Len(stream)
                     /\ dresult' = Err(CorruptedArchive(Len(stream), "Payload"))
                     /\ dev' = "corrupted"
                  \/ /\ dresult' = Err(CorruptedArchive(PosLimit - 1, "Payload"))
                     /\ dev' = "corrupted_unseekable"
                     /\ UNCHANGED rpos
               /\ dpc' = "done"
               /\ derr' = NoErr
               /\ UNCHANGED doffers
         [] route = "on_err" ->
               /\ doffers' = Counted(doffers)
               /\ UNCHANGED rpos
               /\ \/ /\ dpc' = "footer"
                     /\ dev' = "resumed"
                     /\ derr' = NoErr
                     /\ UNCHANGED dresult
                  \/ \* on_err returns Err(e); derr keeps what it returned
                     \E e \in {derr, Translated(derr)} :
                        /\ derr' = e
                        /\ dresult' = Propagate(e)
                        /\ dpc' = "done"
                        /\ dev' = "aborted"
         [] route = "fatal" ->
               /\ dresult' = Err(derr)
               /\ dpc' = "done"
               /\ dev' = "fatal"
               /\ derr' = NoErr
               /\ UNCHANGED <<rpos, doffers>>
    /\ UNCHANGED <<stream, position, fname, fsize, handler, fs, delivered, view>>

\* A seek that leaves the cursor where the handler left it.
SeekFooterM(cursor, target) == cursor
\* Where the reader stands when the footer is read: the seek of
\* decompress.rs:308-310 puts it at footer_position.
SeekFooter(cursor, target) == target

\* decompress.rs:308-318: seek to footer_position, position = it, and the
\* footer byte.
DFooter ==
    /\ UNCHANGED <<cvars, fvars, wvars>>
    /\ dpc = "footer"
    /\ \/ \* the seek fails
          /\ dresult' = Err(ArchiveIo("Other"))
          /\ dpc' = "done"
          /\ dev' = "seek_failed"
          /\ UNCHANGED <<rpos, position>>
       \/ LET at == SeekFooter(rpos, footer_position)
              m == read_matches(stream, at, <<LF>>, footer_position) IN
          /\ rpos' = m.rpos
          /\ position' = m.position
          /\ IF m.io # "none"
             THEN /\ dresult' = Err(ArchiveIo(m.io))
                  /\ dpc' = "done"
                  /\ dev' = "io_error"
             ELSE IF ~m.res
             THEN /\ dresult' = Err(CorruptedArchive(m.position, "Footer"))
                  /\ dpc' = "done"
                  /\ dev' = "corrupted"
             ELSE /\ dpc' = "name"
                  /\ dev' = "footer"
                  /\ UNCHANGED dresult
    /\ UNCHANGED <<stream, fname, fsize, derr, handler, fs, delivered, view, doffers>>

\* The archives handed to decompress_from by themselves ('f' is 102):
\* short and wrong headers, well-formed archives of none, one and two
\* entries, archives cut or damaged in every section, and one whose second
\* entry, cut short, has the name of the first. The sizes 126, 127 and 121
\* added to the position after their line do not fit the position type.
Streams ==
    { <<>>,
      <<68, 67>>,
      <<68, 67, 65, LF>>,
      <<68, 67, 65, 118, 50, LF>>,
      <<88, 67, 65, LF, 102, LF, 48, LF, LF>>,
      <<68, 67, 65, LF, 102, LF, 49, LF, 120, LF>>,
      <<68, 67, 65, LF, 102, LF, 49, LF, LF, LF, 103, LF, 48, LF, LF>>,
      <<68, 67, 65, LF, 102, LF, 53, LF, 98, 97, 114>>,
      <<68, 67, 65, LF, 102, LF, 49, LF, 120>>,
      <<68, 67, 65, LF, 102, LF, 49, LF, 120, 121, LF>>,
      <<68, 67, 65, LF, 102, LF, 122, LF>>,
      <<68, 67, 65, LF, 102, LF>>,
      <<68, 67, 65, LF, 102, 111>>,
      <<68, 67, 65, LF, 102, LF, 49, 50>>,
      <<68, 67, 65, LF, 102, LF, 43, 49, LF, 120, LF>>,
      <<68, 67, 65, LF, 102, LF, 49, 50, 55, LF>>,
      <<68, 67, 65, LF, 102, LF, 49, 50, 54, LF>>,
      <<68, 67, 65, LF, 102, LF, 49, 50, 56, LF>>,
      <<68, 67, 65, LF, 255, LF, 48, LF, LF>>,
      <<68, 67, 65, LF, 97, SLASH, 98, LF, 48, LF, LF>>,
      <<68, 67, 65, LF, 195, 169>>,
      <<68, 67, 65, LF, 102, LF, 49, LF, 120, LF, 102, LF, 53, LF, 97, 98>>,
      <<68, 67, 65, LF, 102, LF, 255, LF>>,
      <<68, 67, 65, LF, 102, LF, 195, 169>>,
      <<68, 67, 65, LF, 102, LF, 49, 50, 49, LF>> }

\* The caller opens a reader over any of these archives and calls
\* decompress_from with one of the two handlers.
DOpenStream ==
    /\ UNCHANGED <<cvars, fvars, wvars>>
    /\ dpc = "idle"
    /\ stream' \in Streams
    /\ handler' \in {"default", "callback"}
    /\ dpc' = "header"
    /\ dev' = "open"
    /\ UNCHANGED <<rpos, position, fname, fsize, derr, dresult, fs, delivered, view, doffers>>

DecompressNext ==
    \/ DOpen
    \/ DHeader
    \/ DReadName
    \/ DReadSize
    \/ DOnFileCallback
    \/ DCreateDefault
    \/ DOnFileDefault
    \/ DDispatch
    \/ DFooter

\* ====================================================== default policies
\* compress::DefaultErrorHandler::on_err, compress.rs:44-49: every error is
\* returned.
compress_on_err(err) == Err(err)

\* A decoding policy that also resumes after an invalid name.
decompress_on_errM(err) ==
    IF err.kind \in {"BadFileIo", "InvalidDcaFilename"} THEN Ok ELSE Err(err)
\* decompress::DefaultErrorHandler::on_err, decompress.rs:47-61: Ok for a
\* BadFileIo, every other error is returned.
decompress_on_err(err) == IF err.kind = "BadFileIo" THEN Ok ELSE Err(err)

\* ====================================================== compress_files
PolicyInit == pol = "none" /\ answers = <<>>

HandlerInit == open_files = <<>> /\ hpc = "idle" /\ whole = <<>> /\ idle_turns = 0

MainInit ==
    /\ m_stream = <<>>
    /\ m_pos = 0
    /\ m_dir = <<>>
    /\ m_pc = "idle"
    /\ m_result = Running
    /\ m_ev = "init"

EntriesInit ==
    /\ names = <<>>
    /\ sorting = "none"
    /\ e_pc = "idle"
    /\ eresult = [status |-> "running", err |-> NoErr, list |-> <<>>]

WrapperInit ==
    /\ arch_exists = FALSE
    /\ cf_pc = "idle"
    /\ cf_result = Running
    /\ cf_ev = "init"
    /\ arch_bytes = <<>>
    /\ PolicyInit
    /\ EntriesInit
    /\ MainInit
    /\ HandlerInit

\* A removal that leaves the file where it is.
RemoveArchiveM(exists) == exists
\* Whether the file is still at archive_name after fs::remove_file
\* returned Ok, compress.rs:238.
RemoveArchive(exists) == FALSE

\* compress.rs:225-235: File::create(archive_name), which creates the file
\* (or truncates the one there) or fails with an error that is returned.
CFCreate ==
    /\ UNCHANGED cfrest
    /\ cf_pc = "idle"
    /\ \/ /\ arch_exists' = TRUE
          /\ cf_pc' = "running"
          /\ cf_ev' = "created"
          /\ UNCHANGED <<cf_result, arch_bytes>>
       \/ /\ cf_result' = Err(ArchiveIo("Create"))
          /\ cf_pc' = "done"
          /\ cf_ev' = "create_failed"
          /\ UNCHANGED <<arch_exists, arch_bytes>>

\* compress_into as compress_files calls it, compress.rs:236: with the
\* default error handler, whose answer to an error it is offered is
\* compress_on_err.
CFCompressInto ==
    /\ UNCHANGED <<pvars, evars, mvars, ovars, xvars, lvars>>
    /\ cf_pc = "running"
    /\ CompressNext
    /\ (cpc = "dispatch" /\ ~CompressFatal(cerr)) => cresult' = compress_on_err(cerr)

\* io::BufWriter (compress.rs:235) holds the last bytes it accepted until
\* it is flushed; compress_files and compress_into never call flush, so
\* that they are written when writer is dropped at the end of the call,
\* where an error of the write is dropped with it: the file is left with
\* all the bytes or, that write failing, with a strict prefix of them.
Flushed(bytes) == {bytes} \cup Partial(bytes)

\* compress.rs:236-243: Ok is returned as it is; on an error the archive
\* is removed, which may fail, and the error is returned.  Then writer goes
\* out of scope and what it holds is flushed.
CFReturn ==
    /\ UNCHANGED cfrest
    /\ cf_pc = "running"
    /\ cpc = "done"
    /\ cf_result' = cresult
    /\ cf_pc' = "done"
    /\ IF cresult = Ok
       THEN /\ arch_bytes' \in Flushed(writer)
            /\ cf_ev' = IF arch_bytes' = writer THEN "ok" ELSE "flush_lost"
            /\ UNCHANGED arch_exists
       ELSE \/ /\ arch_exists' = RemoveArchive(arch_exists)
               /\ cf_ev' = "removed"
               /\ arch_bytes' = <<>>
            \/ /\ cf_ev' = "remove_failed"
               /\ arch_bytes' \in Flushed(writer)
               /\ UNCHANGED arch_exists

\* ====================================================== archive_entries
\* str::cmp, which compares the bytes: whether a comes before b.
RECURSIVE LexLess(_, _)
LexLess(a, b) ==
    IF b = <<>> THEN FALSE
    ELSE IF a = <<>> THEN TRUE
    ELSE IF Head(a) # Head(b) THEN Head(a) < Head(b)
    ELSE LexLess(Tail(a), Tail(b))

\* The orders of the pairs of a list.
Orders(list) ==
    {[i \in 1..Len(list) |-> list[f[i]]] : f \in Permutations(1..Len(list))}

\* A sort that puts the small sizes first.
sortM(list, how) ==
    CASE how = "Name" ->
            {t \in Orders(list) :
               \A i, j \in 1..Len(t) : i < j => ~LexLess(t[j].name, t[i].name)}
      [] how = "Size" ->
            {t \in Orders(list) : \A i, j \in 1..Len(t) : i < j => t[i].len <= t[j].len}
      [] OTHER -> {list}
\* entries.rs:33-37: sort_unstable_by name ascending or by size descending
\* (pairs that compare equal come out in any order), or nothing.
sort(list, how) ==
    CASE how = "Name" ->
            {t \in Orders(list) :
               \A i, j \in 1..Len(t) : i < j => ~LexLess(t[j].name, t[i].name)}
      [] how = "Size" ->
            {t \in Orders(list) : \A i, j \in 1..Len(t) : i < j => t[i].len >= t[j].len}
      [] OTHER -> {list}

\* archive_entries is called on the bytes compress_into produced,
\* entries.rs:20-31: names = Vec::new(), then decompress_from with the
\* listing handler.
EOpen ==
    /\ UNCHANGED <<cvars, fvars, cfvars, pvars, mvars, ovars, xvars, lvars>>
    /\ e_pc = "idle"
    /\ dpc = "idle"
    /\ cpc = "done"
    /\ cresult = Ok
    /\ stream' = writer
    /\ handler' = "listing"
    /\ sorting' \in {"Unsorted", "Name", "Size"}
    /\ names' = <<>>
    /\ e_pc' = "running"
    /\ dpc' = "header"
    /\ dev' = "open"
    /\ UNCHANGED <<rpos, position, fname, fsize, derr, dresult, fs, delivered, view, doffers>>
    /\ UNCHANGED eresult

\* decompress.rs:280-284 with the handler of entries.rs:27-30: the pair
\* is pushed, the reader is left alone and Ok is returned.
DOnFileListing ==
    /\ UNCHANGED <<cvars, fvars, cfvars, pvars, mvars, ovars, xvars, lvars>>
    /\ dpc = "file"
    /\ handler = "listing"
    /\ names' = Append(names, [name |-> fname, len |-> fsize])
    /\ derr' = NoErr
    /\ dpc' = "footer"
    /\ dev' = "on_file_ok"
    /\ view' = [name |-> fname, len |-> fsize, content |-> Take(stream, rpos, fsize),
                read |-> 0, result |-> "none", io |-> "none", removable |-> FALSE]
    /\ delivered' = Counted(delivered)
    /\ UNCHANGED <<stream, rpos, position, fname, fsize, dresult, handler, fs, doffers>>
    /\ UNCHANGED <<sorting, e_pc, eresult>>

\* entries.rs:31-39: the error of decompress_from is returned by `?`;
\* otherwise the pairs are sorted and returned.
EReturn ==
    /\ UNCHANGED <<cvars, dvars, fvars, cfvars, pvars, mvars, ovars, xvars, lvars>>
    /\ e_pc = "running"
    /\ dpc = "done"
    /\ e_pc' = "done"
    /\ IF dresult = Ok
       THEN \E t \in sort(names, sorting) :
               /\ names' = t
               /\ eresult' = [status |-> "Ok", err |-> NoErr, list |-> t]
       ELSE /\ eresult' = [status |-> dresult.status, err |-> dresult.err, list |-> <<>>]
            /\ UNCHANGED names
    /\ UNCHANGED sorting

\* ============================================ main.rs decompress_files
\* An error of main.rs, which is an io::Error.
IoError(kind) == [status |-> "Err", err |-> ArchiveIo(kind)]
Panic == [status |-> "panic", err |-> NoErr]

\* main.rs:182-192: File::open and the header.
MOpen ==
    /\ UNCHANGED <<cvars, dvars, fvars, cfvars, pvars, evars, ovars, xvars, lvars>>
    /\ m_pc = "idle"
    /\ cpc = "done"
    /\ cresult = Ok
    /\ m_stream' = writer
    /\ IF Len(writer) < 4
       THEN /\ m_result' = IoError("UnexpectedEof")
            /\ m_pc' = "done"
            /\ m_ev' = "io_error"
            /\ m_pos' = Len(writer)
       ELSE IF Prefix(writer, 4) # Header
       THEN /\ m_result' = IoError("InvalidData")
            /\ m_pc' = "done"
            /\ m_ev' = "bad_header"
            /\ m_pos' = 4
       ELSE /\ m_pc' = "loop"
            /\ m_ev' = "header"
            /\ m_pos' = 4
            /\ UNCHANGED m_result
    /\ UNCHANGED m_dir

\* One turn of the loop of main.rs:195-240: the name line, the size line,
\* File::create of work_directory joined with the name, the copy of fsize
\* bytes and the footer.
MEntry ==
    /\ UNCHANGED <<cvars, dvars, fvars, cfvars, pvars, evars, ovars, xvars, lvars>>
    /\ m_pc = "loop"
    /\ LET string_buf == UpToLF(From(m_stream, m_pos))
           \* main.rs:201: the line as read_line left it
           file_name == string_buf
           size_buf == UpToLF(From(m_stream, m_pos + Len(string_buf)))
           start == m_pos + Len(string_buf) + Len(size_buf)
           parsed == ParseSize(Prefix(size_buf, Len(size_buf) - 1))
           avail == Take(m_stream, start, parsed.val)
           Finish(res, ev, at, dir) ==
               /\ m_result' = res /\ m_ev' = ev /\ m_pos' = at /\ m_dir' = dir
               /\ m_pc' = "done"
       IN
       IF ~Utf8Chars(string_buf).ok
       THEN Finish(IoError("InvalidData"), "io_error", m_pos, m_dir)
       ELSE IF string_buf = <<>>
       THEN Finish(Ok, "end", m_pos, m_dir)
       ELSE IF ~Utf8Chars(size_buf).ok
       THEN Finish(IoError("InvalidData"), "io_error", m_pos + Len(string_buf), m_dir)
       ELSE IF size_buf = <<>> \/ Continuation(size_buf[Len(size_buf)])
       THEN Finish(Panic, "panic", m_pos + Len(string_buf), m_dir)
       ELSE IF ~parsed.ok
       THEN Finish(IoError("InvalidData"), "bad_size", start, m_dir)
       ELSE \/ \* File::create fails
               Finish(IoError("Other"), "create_failed", start, m_dir)
            \/ IF Len(avail) < parsed.val
               THEN Finish(IoError("UnexpectedEof"), "short_payload", Len(m_stream),
                           Put(m_dir, file_name, avail))
               ELSE IF start + parsed.val >= Len(m_stream)
               THEN Finish(IoError("UnexpectedEof"), "io_error", Len(m_stream),
                           Put(m_dir, file_name, avail))
               ELSE IF m_stream[start + parsed.val + 1] # LF
               THEN Finish(IoError("InvalidData"), "bad_footer", start + parsed.val + 1,
                           Put(m_dir, file_name, avail))
               ELSE /\ m_dir' = Put(m_dir, file_name, avail)
                    /\ m_pos' = start + parsed.val + 1
                    /\ m_ev' = "entry"
                    /\ UNCHANGED <<m_pc, m_result>>
    /\ UNCHANGED m_stream

\* ============================================================ the specs
vars == <<cvars, dvars, fvars, wvars>>

Init == CompressInit /\ DecompressInit /\ FilenameInit /\ WrapperInit

\* compress_into with every fault of the source, of the sink and every
\* answer of the error handler.
Next == CompressNext

Spec == Init /\ [][Next]_vars

\* The same where compress_into, its source, its sink and its policy go on
\* running as long as they have a step to take.
SpecL == Init /\ [][Next]_vars /\ WF_vars(Next)

\* The steps of compress_into in which no fault occurs.
FaultEvents == {"write_failed", "read_failed", "source_failed", "source_archive_io"}
NoFault == cev' \notin FaultEvents

\* An archive is well-formed when every entry has the size it declares.
WellFormed(entries) == \A i \in 1..Len(entries) : Len(entries[i].content) = entries[i].len

\* compress_into without input or output faults (a path whose name is
\* rejected still goes to the error handler), then decompress_from on the
\* bytes it produced when they form a well-formed archive, with every
\* behaviour of the content handler and of the error handler.
NextRT ==
    \/ CWriteHeader /\ NoFault
    \/ CAddFile /\ NoFault
    \/ CWriteLine /\ NoFault
    \/ CCopy /\ NoFault
    \/ CWriteTrailer /\ NoFault
    \/ CDispatch
    \/ DOpen /\ WellFormed(written)
    \/ DHeader
    \/ DReadName
    \/ DReadSize
    \/ DOnFileCallback
    \/ DCreateDefault
    \/ DOnFileDefault
    \/ DDispatch
    \/ DFooter

SpecRT == Init /\ [][NextRT]_vars

\* decompress_from on any archive of Streams, compress_into not being
\* called.
InitD == Init /\ files = <<>>
NextD ==
    \/ DOpenStream
    \/ DHeader
    \/ DReadName
    \/ DReadSize
    \/ DOnFileCallback
    \/ DCreateDefault
    \/ DOnFileDefault
    \/ DDispatch
    \/ DFooter
SpecD == InitD /\ [][NextD]_vars

\* The same where decompress_from, its handler and its policy go on
\* running as long as they have a step to take.
SpecDL == InitD /\ [][NextD]_vars /\ WF_vars(NextD)

\* into_dca_filename by itself.
MaxNameLen == 3
\* The bytes of the names tried: 'a', '\n', '/', the two bytes of U+00E9
\* and a byte that no UTF-8 text holds.
NameBytes == {97, LF, SLASH, 195, 169, 255}
OsNames == SeqsUpTo(NameBytes, MaxNameLen)
InitF ==
    /\ CompressInit /\ files = <<>>
    /\ DecompressInit
    /\ WrapperInit
    /\ os_name \in OsNames
    /\ fresult = NoResult
FApply ==
    /\ UNCHANGED <<cvars, dvars, wvars, os_name>>
    /\ ~fresult.called
    /\ LET r == into_dca_filename(os_name, os_name) IN
       fresult' = [called |-> TRUE, ok |-> r.ok, name |-> r.name, err |-> r.err]
NextF == FApply
SpecF == InitF /\ [][NextF]_vars

\* compress_files on every list of paths, with every fault of the source and
\* of the sink, the file at archive_name being there before or not.
InitCF == CompressInit /\ DecompressInit /\ FilenameInit
          /\ arch_exists \in BOOLEAN /\ cf_pc = "idle" /\ cf_result = Running
          /\ cf_ev = "init" /\ arch_bytes = <<>>
          /\ PolicyInit /\ EntriesInit /\ MainInit /\ HandlerInit
NextCF ==
    \/ CFCreate
    \/ CFCompressInto
    \/ CFReturn
SpecCF == InitCF /\ [][NextCF]_vars

\* Either default error handler called a few times in a row with errors of
\* every variant.
MaxCalls == 2
PolicyErrors ==
    { ArchiveIo("Other"), ArchiveIo("UnexpectedEof"),
      BadFileIo(<<97>>, "Other"), BadFileIo(<<98>>, "Create"),
      InvalidChar(<<97, SLASH>>, SLASH, 1), NotUnicode(<<255>>),
      CorruptedArchive(0, "Header"), CorruptedArchive(4, "Payload") }
InitP ==
    /\ CompressInit /\ files = <<>>
    /\ DecompressInit /\ FilenameInit
    /\ arch_exists = FALSE /\ cf_pc = "idle" /\ cf_result = Running /\ cf_ev = "init"
    /\ arch_bytes = <<>>
    /\ pol \in {"compress", "decompress"}
    /\ answers = <<>>
    /\ EntriesInit /\ MainInit /\ HandlerInit
\* One call of on_err.
POnErr ==
    /\ UNCHANGED <<cvars, dvars, fvars, cfvars, evars, mvars, ovars, xvars, lvars, pol>>
    /\ Len(answers) < MaxCalls
    /\ \E e \in PolicyErrors :
          answers' = Append(answers,
             [err |-> e,
              answer |-> IF pol = "compress" THEN compress_on_err(e)
                         ELSE decompress_on_err(e)])
NextP == POnErr
SpecP == InitP /\ [][NextP]_vars

\* compress_into without input or output faults, then archive_entries on
\* the bytes it produced when they form a well-formed archive.
NextE ==
    \/ CWriteHeader /\ NoFault
    \/ CAddFile /\ NoFault
    \/ CWriteLine /\ NoFault
    \/ CCopy /\ NoFault
    \/ CWriteTrailer /\ NoFault
    \/ CDispatch
    \/ EOpen /\ WellFormed(written)
    \/ DHeader
    \/ DReadName
    \/ DReadSize
    \/ DOnFileListing
    \/ DFooter
    \/ EReturn
SpecE == Init /\ [][NextE]_vars

\* compress_into without input or output faults, then the command line's
\* decompress_files on the bytes it produced when they form a well-formed
\* archive.
NextM ==
    \/ CWriteHeader /\ NoFault
    \/ CAddFile /\ NoFault
    \/ CWriteLine /\ NoFault
    \/ CCopy /\ NoFault
    \/ CWriteTrailer /\ NoFault
    \/ CDispatch
    \/ MOpen /\ WellFormed(written)
    \/ MEntry
SpecM == Init /\ [][NextM]_vars

\* ============================================================ properties
\* The bytes of one entry and of a whole archive, as the format defines
\* them: name LF decimal(len) LF payload LF after "DCA\n".
RECURSIVE Flatten(_)
Flatten(ss) == IF ss = <<>> THEN <<>> ELSE Head(ss) \o Flatten(Tail(ss))
Frame(e) == e.name \o <<10>> \o Decimal(e.len) \o <<10>> \o e.content \o <<10>>
Archive(entries) ==
    <<68, 67, 65, 10>> \o Flatten([i \in 1..Len(entries) |-> Frame(entries[i])])

\* The offset right after the footer of the n-th entry.
EntryEnd(n) == Len(Archive(Prefix(written, n)))

\* How many paths the source has handed out.
Taken == Len(source) - Len(files)

\* The name a path gives its entry: the text after its last '/'.
RECURSIVE EntryName(_)
EntryName(path) ==
    IF \E i \in 1..Len(path) : path[i] = 47 THEN EntryName(Tail(path)) ELSE path

\* Non-empty UTF-8 text with neither '\n' nor '/'.
ValidName(name) ==
    /\ name # <<>>
    /\ Utf8Chars(name).ok
    /\ \A j \in 1..Len(name) : name[j] \notin {10, 47}

\* A valid name that is a file name: neither "." nor "..".
FileLikeName(name) == ValidName(name) /\ name \notin {<<46>>, <<46, 46>>}

\* What the content handler must have seen when decompress_from is done,
\* unless the handler or the seek of the stream failed.
Delivered ==
    /\ dev \in {"on_file_ok", "on_file_err"} =>
          /\ delivered <= Len(written)
          /\ view.name = written[delivered].name
          /\ view.len = written[delivered].len
          /\ view.content = written[delivered].content
    /\ dpc = "done" =>
          \/ dresult = Ok /\ delivered = Len(source)
          \/ view.result # "none"
          \/ dev = "seek_failed"

\* What compress_into has written of the source when it is done.
AllWritten ==
    cpc = "done" =>
       /\ cresult = Ok
       /\ [i \in 1..Len(written) |-> written[i].name]
             = [i \in 1..Len(source) |-> EntryName(source[i])]

\* C1 as claimed: round trip. When the names of the entries are non-empty
\* UTF-8 text with neither '\n' nor '/' and every entry has the length it
\* declares, compress_into returns Ok having framed every entry, and
\* decompress_from on its bytes hands each of them to the content handler
\* with the same name, declared length and content, in the same order, and
\* returns Ok.
C1_Original ==
    (\A i \in 1..Len(source) : ValidName(EntryName(source[i]))) =>
       (AllWritten /\ Delivered)

\* C1 as amended: the same for names that are, besides, neither "." nor
\* "..".
C1_RoundTrip ==
    (\A i \in 1..Len(source) : FileLikeName(EntryName(source[i]))) =>
       (AllWritten /\ Delivered)

\* C1 witness: two entries, the first of ten bytes with a line feed among
\* them and the second empty, came back and decompress_from returned Ok.
C1_Witness ==
    /\ \A i \in 1..Len(source) : FileLikeName(EntryName(source[i]))
    /\ Len(source) = 2
    /\ dpc = "done" /\ dresult = Ok /\ delivered = 2
    /\ written[1].len = 10 /\ LF \in {written[1].content[i] : i \in 1..10}
    /\ written[2].len = 0
    /\ view.content = <<>> /\ view.result = "none"

\* C2: when compress_into has returned Ok, the sink holds the header and
\* then the complete frames of the entries whose add_file succeeded, and
\* nothing else.
C2_CompleteFramesOnly ==
    (cpc = "done" /\ cresult = Ok) => writer = Archive(written)

\* C3: every frame compress_into completed carries as many payload bytes
\* as its size line declares.
C3_PayloadMatchesSize ==
    \A i \in 1..Len(written) : Len(written[i].content) = written[i].len

\* C4: when no fault occurs (no failure of input or output, and no path
\* whose name is rejected), compress_into writes the header and then, for
\* each entry of the source in order, name LF decimal(len) LF payload LF,
\* and returns Ok.
C4_ExactBytes ==
    (/\ cpc \in {"add_file", "done"}
     /\ \A i \in 1..Taken : FileLikeName(EntryName(source[i]))) =>
       /\ writer = Archive(written)
       /\ [i \in 1..Len(written) |-> written[i].path] = Prefix(source, Taken)
       /\ cpc = "done" => cresult = Ok /\ files = <<>>

\* C4 witness: two entries were written, one of them with a payload of ten
\* bytes, and compress_into returned Ok.
C4_Witness ==
    /\ \A i \in 1..Len(source) : FileLikeName(EntryName(source[i]))
    /\ cpc = "done" /\ cresult = Ok /\ Len(source) = 2 /\ Len(written) = 2
    /\ Len(written[1].content) = 10

\* C5: with a source of no entries compress_into writes exactly "DCA\n"
\* and returns Ok; decompress_from on exactly "DCA\n" returns Ok and calls
\* neither on_file nor on_err.
C5_EmptyArchive ==
    /\ (source = <<>> /\ cpc = "done") => (cresult = Ok /\ writer = <<68, 67, 65, 10>>)
    /\ (dpc = "done" /\ stream = <<68, 67, 65, 10>>) =>
          (dresult = Ok /\ delivered = 0 /\ doffers = 0)

\* C5 witness: the empty archive was written and read back.
C5_Witness ==
    /\ source = <<>> /\ cpc = "done" /\ writer = <<68, 67, 65, 10>>
    /\ dpc = "done" /\ stream = writer /\ dresult = Ok

\* C6: whatever part of the payload the handler read, and whether it
\* returned Ok or a fault that the error handler resumed, the footer is read
\* at payload start + size, the next name starts right after it, and every
\* later on_file gets the name and size of its entry.
C6_Reposition ==
    /\ dpc \in {"name", "size", "file"} => rpos = position
    /\ dev = "footer" => position = EntryEnd(delivered)
    /\ dev \in {"on_file_ok", "on_file_err", "resumed"} =>
          /\ view.name = written[delivered].name
          /\ view.len = written[delivered].len
          /\ footer_position + 1 = EntryEnd(delivered)
    /\ (dpc = "done" /\ dresult = Ok) => delivered = Len(written)

\* C6 witness: the footer of a first entry of ten bytes was passed after a
\* handler that read less than ten of them, with a second entry to come.
C6_Witness ==
    /\ dev = "footer" /\ view.len = 10 /\ view.read < 10 /\ delivered = 1
    /\ Len(written) = 2

\* decompress_from ends with an error only when the error handler aborted,
\* the seek failed or the handler returned something other than BadFileIo;
\* and a handler that succeeds got its entry's name and payload.
C7_Delivery ==
    /\ dpc = "done" =>
          \/ dresult = Ok /\ delivered = Len(written)
          \/ dev \in {"aborted", "seek_failed"}
          \/ view.result \notin {"none", "BadFileIo"}
    /\ dev = "on_file_ok" =>
          /\ view.name = written[delivered].name
          /\ view.content = written[delivered].content

\* C7 as claimed: with an error handler that resumes on BadFileIo,
\* decompress_from returns Ok whichever handlers fail with BadFileIo, every
\* handler that succeeds got its entry's name and payload, and the default
\* handler leaves no file behind for an entry whose copy failed.
C7_Original ==
    /\ C7_Delivery
    /\ (handler = "default" /\ view.io = "Write") => view.name \notin DOMAIN fs

\* C7 as amended: the same, but no file is left behind for a failed entry
\* when the removal of that file succeeds.
C7_Recovery ==
    /\ C7_Delivery
    /\ (handler = "default" /\ view.io = "Write" /\ view.removable) =>
          view.name \notin DOMAIN fs

\* C7 witness: the default handler failed on the first entry part-way
\* through its payload, the error handler resumed, the second entry was
\* extracted and decompress_from returned Ok.
C7_Witness ==
    /\ dpc = "done" /\ dresult = Ok /\ handler = "default"
    /\ delivered = 2 /\ doffers = 1
    /\ written[1].name \notin DOMAIN fs
    /\ written[2].name \in DOMAIN fs /\ fs[written[2].name] = written[2].content

\* C8: a BadFileIo or InvalidDcaFilename fault of an entry stands before
\* the match of compress.rs:185 exactly when it was raised; the match offers
\* it to on_err once; a resume goes on to the next add_file with the call
\* still running, an abort ends the call with an error; an error result has
\* no other origin than an abort or an ArchiveIo.
C8_FaultPending ==
    /\ cev \in {"source_failed", "name_rejected", "read_failed"} =>
          (cpc = "dispatch" /\ cerr.kind # "none" /\ cerr.kind # "ArchiveIo" /\ offers = 0)
    /\ (cpc = "done" /\ cresult.status = "Err") =>
          cev \in {"aborted", "fatal", "write_fatal", "write_failed"}
    /\ (cpc = "done" /\ cev = "no_more_files") => cresult = Ok
C8_Offer ==
    (cpc = "dispatch" /\ cerr.kind \notin {"none", "ArchiveIo"}) =>
       /\ offers' = offers + 1
       /\ \/ cev' = "resumed" /\ cpc' = "add_file" /\ cresult' = Running /\ files' = files
          \/ cev' = "aborted" /\ cpc' = "done" /\ cresult'.status = "Err"
C8_PolicyDecides == []C8_FaultPending /\ [][C8_Offer]_vars

\* C8 witness: a fault was offered and resumed, and entries remain.
C8_Witness == cev = "resumed" /\ cpc = "add_file" /\ offers = 1 /\ files # <<>>

\* C9: the step in which an entry is rejected (its source fails to open or
\* its name is invalid) and the step in which the error handler answers
\* leave the sink as it was, and no entry with an invalid name is framed.
C9_SkipStep ==
    /\ (cpc = "add_file" /\ cpc' = "dispatch") => writer' = writer /\ written' = written
    /\ (cpc = "dispatch") => writer' = writer /\ written' = written
C9_ValidNames ==
    \A i \in 1..Len(written) :
       /\ written[i].name # <<>>
       /\ Utf8Chars(written[i].name).ok
       /\ \A j \in 1..Len(written[i].name) : written[i].name[j] \notin {10, 47}
C9_SkipWritesNothing == []C9_ValidNames /\ [][C9_SkipStep]_vars

\* C9 witness: of two entries taken one was framed and one skipped, the
\* error handler resumed, and the sink holds the frame of the one only.
C9_Witness ==
    /\ cev = "resumed" /\ Taken = 2 /\ Len(written) = 1
    /\ writer = Archive(written)

\* C10: a failed write to the sink ends compress_into with ArchiveIo in the
\* next step of the call: on_err is not called, no entry is requested and
\* nothing more is written; and a call that has returned does nothing more.
C10_Pending ==
    cev = "write_failed" =>
       \/ cpc = "done" /\ cresult.status = "Err" /\ cresult.err.kind = "ArchiveIo"
       \/ cpc = "dispatch" /\ cerr.kind = "ArchiveIo"
C10_Return ==
    /\ (cpc = "dispatch" /\ cev = "write_failed") =>
          /\ cpc' = "done" /\ cresult' = Err(cerr)
          /\ offers' = offers /\ files' = files /\ writer' = writer
    /\ cpc = "done" => UNCHANGED cvars
C10_SinkFailureFatal == []C10_Pending /\ [][C10_Return]_vars

\* C10 witness: the write of a second entry's payload failed and
\* compress_into returned ArchiveIo.
C10_Witness ==
    /\ cpc = "done" /\ cev = "write_fatal" /\ cresult.err.kind = "ArchiveIo"
    /\ Len(written) = 1 /\ offers = 0

\* C11: truncation. When the stream holds fewer bytes than the size line
\* declares and the default handler copies all of them without a fault of
\* its own, on_file returns UnexpectedEof and decompress_from returns
\* CorruptedArchive, section Payload, at the end of the stream; on_err is
\* not called.
C11_Reported ==
    (dev = "corrupted" /\ dresult.err.section = "Payload") =>
       (dpc = "done" /\ dresult = Err(CorruptedArchive(Len(stream), "Payload")))
C11_Step ==
    /\ (/\ dpc = "file" /\ dpc' # "file" /\ handler = "default"
        /\ Len(stream) - rpos < fsize
        /\ view'.result # "BadFileIo" /\ view'.io # "Other") =>
          (derr' = ArchiveIo("UnexpectedEof") /\ rpos' = Len(stream))
    /\ (dpc = "dispatch" /\ derr = ArchiveIo("UnexpectedEof")) =>
          /\ dpc' = "done" /\ doffers' = doffers
          /\ \/ dresult' = Err(CorruptedArchive(Len(stream), "Payload"))
             \/ dev' = "corrupted_unseekable"
C11_Truncation == []C11_Reported /\ [][C11_Step]_vars

\* C11 witness: "DCA\nf\n5\nbar" with the default handler ended with
\* CorruptedArchive, section Payload, at offset 11.
C11_Witness ==
    /\ stream = <<68, 67, 65, 10, 102, 10, 53, 10, 98, 97, 114>>
    /\ handler = "default" /\ dpc = "done" /\ view.read = 3
    /\ dresult = Err(CorruptedArchive(11, "Payload"))

\* C12: header validation. On a stream of four bytes or more that does not
\* start with "DCA\n" decompress_from returns CorruptedArchive, section
\* Header, at position 0, and on_file is never called.
C12_HeaderRejected ==
    (/\ dpc \notin {"idle", "header"}
     /\ Len(stream) >= 4
     /\ SubSeq(stream, 1, 4) # <<68, 67, 65, 10>>) =>
       /\ dpc = "done"
       /\ dresult = Err(CorruptedArchive(0, "Header"))
       /\ delivered = 0 /\ doffers = 0

\* C12 witness: "DCAv2\n" was rejected.
C12_Witness ==
    /\ stream = <<68, 67, 65, 118, 50, 10>>
    /\ dpc = "done" /\ dresult.err.section = "Header"

\* C13: a stream that ends before its fourth byte, or right after a
\* complete payload where the footer is expected, makes decompress_from
\* return ArchiveIo of kind UnexpectedEof.
C13_ShortHeader ==
    (dpc \notin {"idle", "header"} /\ Len(stream) < 4) =>
       (dpc = "done" /\ dresult = Err(ArchiveIo("UnexpectedEof")) /\ delivered = 0)
C13_NoFooter ==
    (/\ dpc = "footer"
     /\ position + fsize = Len(stream)
     /\ dev' # "seek_failed") =>
       (dpc' = "done" /\ dresult' = Err(ArchiveIo("UnexpectedEof")))
C13_EndOfStreamIsIo == []C13_ShortHeader /\ [][C13_NoFooter]_vars

\* C13 witness: "DCA\nf\n1\nx", whose handler returned Ok, ended with
\* ArchiveIo(UnexpectedEof).
C13_Witness ==
    /\ stream = <<68, 67, 65, 10, 102, 10, 49, 10, 120>>
    /\ dpc = "done" /\ delivered = 1 /\ view.result = "none"
    /\ dresult = Err(ArchiveIo("UnexpectedEof"))

\* A byte that is a whole character, that starts a character of two
\* bytes, or that continues one.
IsAscii(b) == b < 128
IsLead2(b) == b >= 194 /\ b <= 223
IsCont(b) == b >= 128 /\ b <= 191

\* Text: every byte is a whole character or belongs to a pair of a lead and
\* a continuation byte (longer characters do not occur in the names tried).
IsText(bytes) ==
    \A j \in 1..Len(bytes) :
       \/ IsAscii(bytes[j])
       \/ IsLead2(bytes[j]) /\ j < Len(bytes) /\ IsCont(bytes[j + 1])
       \/ IsCont(bytes[j]) /\ j > 1 /\ IsLead2(bytes[j - 1])

\* The offsets (from 1) of the forbidden characters of a name, and the
\* zero-based index of the character that starts at an offset.
ForbiddenAt(bytes) == {j \in 1..Len(bytes) : bytes[j] \in {10, 47}}
FirstOf(S) == CHOOSE j \in S : \A k \in S : j <= k
CharIndex(bytes, j) == Cardinality({i \in 1..(j - 1) : ~IsCont(bytes[i])})

\* C14: when the callback of compress_into is entered for a path whose
\* final component is text holding '\n' or '/', the entry fails with
\* InvalidDcaFilename for that path, citing the first such character and
\* its index, and neither that step nor the answer of the error handler
\* writes to the sink.
C14_Step ==
    /\ (/\ cpc = "add_file" /\ files # <<>>
        /\ cev' \in {"callback", "name_rejected"}
        /\ IsText(EntryName(Head(files)))
        /\ ForbiddenAt(EntryName(Head(files))) # {}) =>
          LET name == EntryName(Head(files))
              at == FirstOf(ForbiddenAt(name)) IN
          /\ cpc' = "dispatch"
          /\ cerr' = [kind |-> "InvalidDcaFilename", path |-> Head(files),
                      io |-> "InvalidChar", ch |-> name[at],
                      pos |-> CharIndex(name, at), section |-> "none"]
          /\ writer' = writer /\ written' = written
    /\ (cpc = "dispatch" /\ cerr.kind = "InvalidDcaFilename") =>
          (writer' = writer /\ written' = written)
C14_NameRejected == [][C14_Step]_vars

\* C14 witness: after one entry was framed, "a\nb" is rejected citing
\* '\n' at index 1, the sink holding the one frame.
C14_Witness ==
    /\ cpc = "dispatch" /\ cerr.kind = "InvalidDcaFilename"
    /\ cerr.path = <<97, 10, 98>> /\ cerr.ch = 10 /\ cerr.pos = 1
    /\ Len(written) = 1 /\ writer = Archive(written)

\* C15: into_dca_filename returns the name unchanged exactly when it is
\* text with neither '\n' nor '/'; a name that is not text gives
\* NotUnicode; any other gives InvalidChar(c, i) with c the first forbidden
\* character and i its zero-based character index.
C15_Filename ==
    fresult.called =>
       /\ fresult.ok <=> (IsText(os_name) /\ ForbiddenAt(os_name) = {})
       /\ fresult.ok => fresult.name = os_name
       /\ ~IsText(os_name) =>
             (fresult.err.kind = "InvalidDcaFilename" /\ fresult.err.io = "NotUnicode")
       /\ (IsText(os_name) /\ ForbiddenAt(os_name) # {}) =>
             LET at == FirstOf(ForbiddenAt(os_name)) IN
             /\ fresult.err.kind = "InvalidDcaFilename"
             /\ fresult.err.io = "InvalidChar"
             /\ fresult.err.ch = os_name[at]
             /\ fresult.err.pos = CharIndex(os_name, at)

\* C15 witness: the name of U+00E9 followed by '/' was answered with
\* InvalidChar('/', 1).
C15_Witness ==
    /\ os_name = <<195, 169, 47>>
    /\ fresult.called /\ fresult.err.ch = 47 /\ fresult.err.pos = 1

\* C16: an ArchiveIo or a CorruptedArchive that stands before the match of
\* compress_into (compress.rs:185) or of decompress_from (decompress.rs:286),
\* raised by the engine or returned by the source or the handler, ends the
\* call with an error in the next step and is not passed to on_err.
C16_Step ==
    /\ (cpc = "dispatch" /\ cerr.kind \in {"ArchiveIo", "CorruptedArchive"}) =>
          (offers' = offers /\ cpc' = "done" /\ cresult' = Err(cerr))
    /\ (dpc = "dispatch" /\ derr.kind \in {"ArchiveIo", "CorruptedArchive"}) =>
          (doffers' = doffers /\ dpc' = "done" /\ dresult'.status = "Err")
C16_NeverOffered == [][C16_Step]_vars

\* C17 as claimed: a BadFileIo and an InvalidDcaFilename returned by on_file
\* are both passed to on_err, and when on_err returns Ok decoding goes on
\* at the footer of the entry.
C17_Offer(kinds) ==
    (dpc = "dispatch" /\ derr.kind \in kinds) =>
       /\ doffers' = doffers + 1
       /\ \/ dev' = "resumed" /\ dpc' = "footer" /\ dresult' = Running
          \/ dev' = "aborted" /\ dpc' = "done" /\ dresult'.status = "Err"
C17_Original == [][C17_Offer({"BadFileIo", "InvalidDcaFilename"})]_vars

\* C17 as amended: only a BadFileIo returned by on_file is passed to on_err
\* (and decoding goes on at the footer when on_err returns Ok); an
\* InvalidDcaFilename returned by on_file ends decompress_from with that
\* error, on_err not being called.
C17_Unexpected ==
    (dpc = "dispatch" /\ derr.kind = "InvalidDcaFilename") =>
       (doffers' = doffers /\ dpc' = "done" /\ dresult' = Err(derr))
C17_OnlyBadFileIo == [][C17_Offer({"BadFileIo"}) /\ C17_Unexpected]_vars

\* C17 witness: the handler of the first of two entries returned BadFileIo,
\* on_err was called once and returned Ok, and the second entry was handed
\* to the handler, which returned Ok.
C17_Witness ==
    /\ handler = "callback" /\ doffers = 1 /\ delivered = 2
    /\ dev = "on_file_ok" /\ view.name = written[2].name

\* C18: when on_err answers an offered fault with an error, compress_into
\* or decompress_from returns exactly that error in the same step, which
\* neither takes a path from the source, nor writes to the sink, nor reads
\* the stream, nor calls on_file; and a call that has returned does
\* nothing more.
C18_Returned ==
    /\ cev = "aborted" =>
          (cpc = "done" /\ cerr.kind # "none" /\ cresult = Err(cerr) /\ offers = 1)
    /\ dev = "aborted" =>
          (dpc = "done" /\ derr.kind # "none" /\ dresult = Err(derr))
C18_Step ==
    /\ cpc = "dispatch" =>
          (files' = files /\ writer' = writer /\ written' = written)
    /\ dpc = "dispatch" =>
          (delivered' = delivered /\ fs' = fs /\ (dev' = "aborted" => rpos' = rpos))
    /\ cpc = "done" => UNCHANGED cvars
    /\ dpc = "done" => UNCHANGED dvars
C18_AbortIsFinal == []C18_Returned /\ [][C18_Step]_vars

\* C18 witness: on_err answered the BadFileIo of the first of two entries
\* with another error, and decompress_from returned that error with the
\* second entry untouched.
C18_Witness ==
    /\ dev = "aborted" /\ derr.io = "Translated" /\ dresult = Err(derr)
    /\ delivered = 1 /\ doffers = 1 /\ Len(written) = 2

\* C19: compress_into takes the paths of the source one at a time from the
\* front, with every frame before complete in the sink; decompress_from
\* calls on_file once per entry, in the order of the stream, and reads a
\* name only after the header or after the footer of the entry before it.
C19_Between ==
    /\ cpc = "add_file" => writer = Archive(written)
    /\ dpc = "name" => (rpos = position /\ position = EntryEnd(delivered))
    /\ (dpc = "done" /\ dresult = Ok) => delivered = Len(written)
C19_Step ==
    /\ files' # files => (cpc = "add_file" /\ files' = Tail(files))
    /\ Len(written') # Len(written) =>
          (Len(written') = Len(written) + 1 /\ written'[Len(written')].path = cfile.path)
    /\ delivered' # delivered =>
          /\ dpc = "file" /\ dpc' # "file"
          /\ delivered' = delivered + 1
          /\ view'.name = written[delivered'].name
          /\ view'.len = written[delivered'].len
    /\ (dpc' = "name" /\ dpc # "name") =>
          \/ dpc = "header"
          \/ /\ dpc = "footer"
             /\ stream[footer_position + 1] = 10
             /\ position' = footer_position + 1
    /\ (dpc' = "file" /\ dpc # "file") => dpc = "size"
C19_InOrder == []C19_Between /\ [][C19_Step]_vars

\* C19 witness: the second of two entries is with its handler, the footer
\* of the first having been read.
C19_Witness ==
    /\ delivered = 2 /\ dev \in {"on_file_ok", "on_file_err"}
    /\ view.name = written[2].name /\ Len(written[1].content) = 10

\* C20: the position never decreases, and a segment read with success
\* moves it by the bytes of the segment: 4 for the header, the length of
\* the line with its '\n' for a name or a size, the declared size and 1 for
\* a payload and its footer.
C20_Step ==
    /\ position' >= position
    /\ (dpc = "header" /\ dpc' = "name") => position' = position + 4
    /\ (dpc = "name" /\ dpc' = "size") => position' = position + Len(fname') + 1
    /\ (dpc = "size" /\ dpc' = "file") =>
          position' = position + Len(UpToLF(From(stream, rpos)))
    /\ (dpc = "footer" /\ dpc' = "name") => position' = position + fsize + 1
C20_Position == [][C20_Step]_vars

\* C21: the reader on_file is given holds the bytes of the stream from the
\* start of the payload, at most the declared size of them; the handler
\* reads no further, so the cursor never passes the footer byte; and on an
\* archive compress_into wrote, what is read up to the end of that reader
\* is the payload of the entry.
C21_View ==
    dev \in {"on_file_ok", "on_file_err"} =>
       /\ Len(view.content) <= view.len
       /\ view.read <= Len(view.content)
       /\ (cpc = "done" /\ delivered <= Len(written)) =>
             /\ view.content = written[delivered].content
             /\ stream[rpos - view.read + Len(view.content) + 1] = LF
C21_Step ==
    delivered' # delivered =>
       /\ view'.content = SubSeq(stream, rpos + 1, Min(rpos + fsize, Len(stream)))
       /\ rpos' = rpos + view'.read
       /\ rpos' <= rpos + fsize
C21_BoundedReader == []C21_View /\ [][C21_Step]_vars

\* C21 witness: a custom handler read all ten bytes of the first of two
\* entries, a line feed among them, and the cursor stands on the footer.
C21_Witness ==
    /\ handler = "callback" /\ dev = "on_file_ok" /\ delivered = 1
    /\ Len(written) = 2 /\ view.len = 10 /\ view.read = 10
    /\ LF \in {view.content[i] : i \in 1..10}
    /\ view.content = written[1].content
    /\ stream[rpos + 1] = LF

\* C22: with the default content handler, a step that is not a successful
\* extraction leaves every file of the work directory in place with the
\* content it had, so the files of the entries extracted before survive an
\* abort and a skipped entry.
C22_Step ==
    (handler = "default" /\ dev' # "on_file_ok") =>
       \A k \in DOMAIN fs : k \in DOMAIN fs' /\ fs'[k] = fs[k]
C22_EarlierFilesKept == [][C22_Step]_vars

\* C23: when compress_files fails after File::create succeeded, what it
\* returns is the error compress_into ended with, which for an error
\* offered to the default handler is that same error, no entry being
\* skipped; the removal of the archive was attempted, and when it succeeded
\* there is no file at archive_name, the returned error being the same
\* whether it succeeded or not.
C23_Failed ==
    /\ cev # "resumed"
    /\ cev = "aborted" => cresult = Err(cerr)
    /\ (cf_pc = "done" /\ cf_ev # "create_failed") =>
          /\ cf_result = cresult
          /\ cf_result # Ok =>
                /\ cf_result.status = "Err"
                /\ cf_ev \in {"removed", "remove_failed"}
                /\ cf_ev = "removed" => ~arch_exists
    /\ (cf_pc = "done" /\ cf_result = Ok) => (cf_ev \in {"ok", "flush_lost"} /\ arch_exists)
C23_Step ==
    /\ (cpc = "dispatch" /\ cpc' = "done") => cresult' = Err(cerr)
    /\ cf_pc = "done" => UNCHANGED <<arch_exists, cf_result>>
C23_ArchiveRemoved == []C23_Failed /\ [][C23_Step]_vars

\* C23 witness: the second of two files could not be read after the first
\* was written whole; compress_files returned that BadFileIo and the
\* archive is gone.
C23_Witness ==
    /\ cf_pc = "done" /\ cf_ev = "removed" /\ ~arch_exists
    /\ Len(written) = 1 /\ Len(source) = 2
    /\ cf_result.status = "Err" /\ cf_result.err.kind = "BadFileIo"
    /\ cf_result.err.io = "Other"

\* C24: the default decoding policy answers Ok to a BadFileIo and to
\* nothing else, and Err with the error it was given to every other error;
\* the default encoding policy answers Err with the error it was given to
\* every error; the answer to an error is the same whatever was asked
\* before.
C24_Table ==
    \A i \in 1..Len(answers) :
       LET a == answers[i] IN
       /\ pol = "decompress" =>
             /\ a.answer = Ok <=> a.err.kind = "BadFileIo"
             /\ a.answer # Ok => a.answer = Err(a.err)
       /\ pol = "compress" => a.answer = Err(a.err)
       /\ \A j \in 1..Len(answers) : answers[j].err = a.err => answers[j].answer = a.answer

\* C24 witness: the decoding policy was given an invalid name and then a
\* BadFileIo; it returned the first and resumed after the second.
C24_Witness ==
    /\ pol = "decompress" /\ Len(answers) = 2
    /\ answers[1].err.kind = "InvalidDcaFilename" /\ answers[1].answer = Err(answers[1].err)
    /\ answers[2].err.kind = "BadFileIo" /\ answers[2].answer = Ok

\* C25: archive_entries, when it returns Ok, returns one pair of name and
\* declared size per entry of the archive, by some rearrangement of the
\* entries; as they come in the stream when Unsorted, names never
\* descending when Name, sizes never ascending when Size; and its handler
\* reads nothing of any payload.
C25_Listed ==
    (e_pc = "done" /\ eresult.status = "Ok") =>
       LET list == eresult.list
           n == Len(written) IN
       /\ Len(list) = n
       /\ \E f \in Permutations(1..n) :
             \A i \in 1..n : /\ list[i].name = written[f[i]].name
                             /\ list[i].len = written[f[i]].len
       /\ sorting = "Unsorted" =>
             \A i \in 1..n : /\ list[i].name = written[i].name
                             /\ list[i].len = written[i].len
       /\ sorting = "Name" =>
             \A i, j \in 1..n : i < j => ~LexLess(list[j].name, list[i].name)
       /\ sorting = "Size" =>
             \A i, j \in 1..n : i < j => list[i].len >= list[j].len
C25_Step ==
    (handler = "listing" /\ delivered' # delivered) =>
       (rpos' = rpos /\ view'.read = 0)
C25_Entries == []C25_Listed /\ [][C25_Step]_vars

\* C25 witness: two entries, the smaller first in the stream, listed by
\* size: the larger one comes first.
C25_Witness ==
    /\ e_pc = "done" /\ eresult.status = "Ok" /\ sorting = "Size"
    /\ Len(written) = 2 /\ written[1].len < written[2].len
    /\ eresult.list[1].len = written[2].len
    /\ eresult.list[1].name = written[2].name
    /\ eresult.list[2].name = written[1].name

\* C26: the command line's decompress_files, on a well-formed archive and
\* when every file can be created, returns Ok with, for every entry, a file
\* in the output directory named as the entry (the name line without its
\* line feed) that holds the payload of the entry (of the last entry of
\* that name).
C26_Extracted ==
    (m_pc = "done" /\ m_ev # "create_failed") =>
       /\ m_result = Ok
       /\ \A i \in 1..Len(written) :
             /\ written[i].name \in DOMAIN m_dir
             /\ (\A j \in (i + 1)..Len(written) : written[j].name # written[i].name) =>
                   m_dir[written[i].name] = written[i].content

\* C27: when the stream ends before the declared size of an entry is
\* there (every offset of the entry fitting the position type), and the
\* handler returned Ok or the UnexpectedEof of its reader, whatever it
\* read, and the seek did not fail, decompress_from returns
\* CorruptedArchive, section Payload.
C27_ShortPayload ==
    (/\ dpc = "done" /\ delivered >= 1
     /\ Len(view.content) < view.len
     /\ Len(stream) + view.len < PosLimit
     /\ \/ view.result = "none"
        \/ view.result = "ArchiveIo" /\ view.io = "UnexpectedEof"
     /\ dev # "seek_failed")
    => /\ dresult.status = "Err"
       /\ dresult.err.kind = "CorruptedArchive"
       /\ dresult.err.section = "Payload"

\* C28: every name on_file is given has neither a line feed nor a '/' in
\* it.
C28_NoLineFeed ==
    dev \in {"on_file_ok", "on_file_err"} =>
       \A j \in 1..Len(view.name) : view.name[j] # LF
C28_DeliveredNames ==
    /\ C28_NoLineFeed
    /\ dev \in {"on_file_ok", "on_file_err"} =>
          \A j \in 1..Len(view.name) : view.name[j] # SLASH

\* C29: the size line is accepted exactly when what it holds before its
\* line feed is one or more ASCII decimal digits whose value fits the
\* position type (the sum of position and size not fitting may then panic);
\* any other content, and the end of the stream in place of the line, ends
\* decompress_from with CorruptedArchive, section FileSize, at the position
\* before the line, on_file not being called.
\* What a line holds before its line feed (all of it when it has none).
LineContent(line) ==
    IF line # <<>> /\ line[Len(line)] = LF THEN Prefix(line, Len(line) - 1) ELSE line
C29_Digits(text) ==
    /\ text # <<>>
    /\ Len(text) <= MaxDigits
    /\ \A i \in 1..Len(text) : text[i] >= 48 /\ text[i] <= 57
    /\ DigitsValue(text, 0) < PosLimit
C29_Step ==
    dpc = "size" =>
       LET line == UpToLF(From(stream, rpos))
           digits == C29_Digits(LineContent(line)) IN
       /\ dpc' = "file" => digits
       /\ digits => (dpc' = "file" \/ dev' = "panic")
       /\ ~digits =>
             /\ dresult' = Err(CorruptedArchive(position, "FileSize"))
             /\ dpc' = "done"
             /\ delivered' = delivered
C29_SizeField == [][C29_Step]_vars

\* C30: what read_line hands to its caller is the line without its line
\* feed and with nothing else removed: the name given to the rest of
\* decompress_from is all of the name line before the line feed, and the
\* size is the value of all of the size line before the line feed, also
\* when the stream ends before a line feed.
C30_Step ==
    /\ (dpc = "name" /\ dpc' = "size") =>
          fname' = LineContent(UpToLF(From(stream, rpos)))
    /\ (dpc = "size" /\ dpc' = "file") =>
          LET parsed == ParseSize(LineContent(UpToLF(From(stream, rpos)))) IN
          parsed.ok /\ fsize' = parsed.val
C30_WholeLine == [][C30_Step]_vars

\* C31: when the seek to the footer does not fail and the stream has a byte
\* at payload start + declared size that is not a line feed,
\* decompress_from ends with CorruptedArchive, section Footer, at that very
\* offset, and on_file is not called again.
C31_Step ==
    /\ (/\ dpc = "footer" /\ dev' # "seek_failed"
        /\ position + fsize < Len(stream)
        /\ stream[position + fsize + 1] # LF)
       => /\ dresult' = Err(CorruptedArchive(position + fsize, "Footer"))
          /\ dpc' = "done"
          /\ position' = position + fsize
    /\ dpc = "done" => delivered' = delivered
C31_FooterMismatch == [][C31_Step]_vars

\* C31 witness: the entry of 'DCA\nf\n1\nxy\n' declares one byte and 'y'
\* stands at offset 9 where its footer should be.
C31_Witness ==
    /\ dpc = "done" /\ dev = "corrupted" /\ delivered = 1
    /\ dresult = Err(CorruptedArchive(9, "Footer"))
    /\ position = 9 /\ stream[10] = 121 /\ Len(stream) = 11

\* C32: with the default content handler no more than one output file is
\* ever open, none is open outside on_file, and when on_file returns an
\* error after it created the file of the entry and the removal succeeded,
\* no file of that name is left.
C32_Closed ==
    /\ Len(open_files) <= 1
    /\ (dpc # "file" \/ hpc = "idle") => open_files = <<>>
C32_Step ==
    (handler = "default" /\ dev' = "on_file_err" /\ dpc = "file" /\ hpc = "created") =>
       /\ open_files = <<fname>> /\ open_files' = <<>>
       /\ view'.removable => fname \notin DOMAIN fs'
C32_Released == []C32_Closed /\ [][C32_Step]_vars

\* C32 witness: the copy of the second entry failed on a write after the
\* first was extracted; its file is closed and removed and the error is
\* with the match of decompress_from.
C32_Witness ==
    /\ handler = "default" /\ dpc = "dispatch" /\ delivered = 2
    /\ view.io = "Write" /\ view.removable
    /\ open_files = <<>> /\ view.name \notin DOMAIN fs
    /\ written[1].name \in DOMAIN fs

\* ------------------------------------------ decompress_from on prefixes
\* Well-formed archives of at most MaxEntries entries, as compress_into
\* frames them: names of one ASCII and of one two-byte character, an empty
\* payload and one of ten bytes with a line feed in it.
MaxEntries == 2
PrefixEntries ==
    { [name |-> n, len |-> Len(c), content |-> c] :
         n \in {<<102>>, <<195, 169>>},
         c \in {<<>>, <<121, 121, 121, LF, 121, 121, 121, 121, 121, 122>>} }
WellFormedBytes(entries) ==
    Header \o Flatten([i \in 1..Len(entries) |->
                          NameSizeLine(entries[i].name, entries[i].len)
                             \o entries[i].content \o <<LF>>])

\* The caller opens a reader over the first n bytes of a well-formed
\* archive and calls decompress_from with one of the two handlers.
DOpenPrefix ==
    /\ UNCHANGED <<cvars, fvars, cfvars, pvars, evars, mvars, ovars, lvars>>
    /\ dpc = "idle"
    /\ \E es \in SeqsUpTo(PrefixEntries, MaxEntries) :
       \E n \in 0..Len(WellFormedBytes(es)) :
          /\ whole' = es
          /\ stream' = Prefix(WellFormedBytes(es), n)
    /\ handler' \in {"default", "callback"}
    /\ dpc' = "header"
    /\ dev' = "open"
    /\ UNCHANGED <<rpos, position, fname, fsize, derr, dresult, fs, delivered, view, doffers>>

NextPre ==
    \/ DOpenPrefix
    \/ DHeader
    \/ DReadName
    \/ DReadSize
    \/ DOnFileCallback
    \/ DCreateDefault
    \/ DOnFileDefault
    \/ DDispatch
    \/ DFooter
SpecPre == InitD /\ [][NextPre]_vars

\* The offsets of a well-formed archive at which an entry name is
\* expected: after the header and after every footer.
AtBoundary(n) ==
    \E k \in 0..Len(whole) : n = Len(WellFormedBytes(Prefix(whole, k)))

\* decompress_from returns Ok only when the stream ended where a name was
\* expected.
C33_OkAtBoundary ==
    (dpc = "done" /\ dresult = Ok) =>
       (rpos = Len(stream) /\ position = Len(stream) /\ AtBoundary(Len(stream)))

C34_Terminates == <>(dpc = "done")

\* C35: compress_into, its source, its sink and its policy returning
\* whenever they are called, ends for every list of entries and every
\* behaviour of the sink: it returns Ok or an error.
C35_Terminates == <>(cpc = "done")

\* C36: decompress_from reports every malformed input as an error value and
\* never panics: whatever the byte stream, a name or size line without its
\* line feed and a size near the limit of the position type included, the
\* call returns Ok or an ArchiveError.
C36_NoPanic == dpc = "done" => dresult.status \in {"Ok", "Err"}

\* C37: for every size the decoder accepted, at whatever position, the sum
\* position + size that gives the footer position fits the position type
\* and is not smaller than position: it does not wrap around, and the
\* decoder does not seek backwards.
C37_Fits ==
    dpc \in {"file", "footer"} =>
        /\ position + fsize < PosLimit
        /\ footer_position >= position

\* C38: compress_files returns Ok only when every byte of the archive, the
\* header and all the frames, was accepted by the output file; a write
\* that fails, the one of the bytes the buffered writer still holds at the
\* end of the call included, gives ArchiveIo and the removal of the file.
C38_AllAccepted ==
    /\ (cf_pc = "done" /\ cf_result = Ok) => arch_bytes = writer
    /\ (cf_pc = "done" /\ cf_ev = "flush_lost") =>
          /\ cf_result.status = "Err" /\ cf_result.err.kind = "ArchiveIo"
          /\ ~arch_exists

====
